---- MODULE Spec2Model ----
(***************************************************************************)
(* OneTime (src/OTP.py): the pad-records store (class Configuration), the  *)
(* pad session (class PadSession) and the stream encoder / decoder,        *)
(* modelled as a state machine of successive command-line runs.            *)
(***************************************************************************)
EXTENDS Integers, Sequences, FiniteSets, TLC

VARIABLES
  pad_size,      \* PadSession.pad_size: size of the pad file
  disk,          \* per config area, the pad-records file: pad id -> used list
                 \* (in SpecSave: the files of one area, see there)
  pad_records,   \* Configuration.pad_records of the running session
  sess,          \* the fields of the running PadSession
  pc,            \* position of the run: idle, open, enc, dec, done, failed, dropped
                 \* (further positions in SpecSave and SpecConfig)
  randy,         \* RandomEnough: state of the random source
  comp,          \* SessionEncoder.compressor
  decomp,        \* SessionDecoder.decompressor and unused_data
  inp,           \* input still to be read by main(): plaintext chunks or armor lines
  out,           \* output written by main(): armor lines or plaintext bytes
  cur,           \* the job of the running session (what main() was asked to do)
  msgs,          \* armored messages produced by finished encryptions
  hist,          \* successfully finished sessions, oldest first
  disk0,         \* the pad-records file as it was when the session opened it
  nsess,         \* number of runs started
  scope,         \* what the runs explored may use: sessions, plaintexts, offsets
  cons           \* argument and results of _consolidate_used_ranges taken alone

vars == <<pad_size, disk, pad_records, sess, pc, randy, comp, decomp, inp, out,
          cur, msgs, hist, disk0, nsess, scope, cons>>

(***************************************************************************)
(* Program constants.                                                      *)
(***************************************************************************)
IdSourceLength == 32
DigestLength == 32
DigestSourceLength == 32
DefaultFuzzSourceLength == 2
DefaultFuzzSourceModulo == 512

(***************************************************************************)
(* Bounds of the model.                                                    *)
(***************************************************************************)
MaxSessions == 3
WideSessions == 2
MaxPlainLen == 2
ReadChunk == 2      \* main() reads 8192 bytes at a time
BlockSize == 2      \* plaintext bytes in one block of the compressed stream
MaxBinSize == 18    \* bytes in one line of base64 (base64.MAXBINSIZE is 57)
MaxRanges == 3      \* ranges in a list handed to _consolidate_used_ranges
MaxOff == 3         \* their offsets are 0..MaxOff
MaxLen == 2         \* their lengths are 0..MaxLen
MaxCalls == 3       \* calls of record_consumed in a row
MaxCut == 2         \* bytes cut from the end of a message
MaxAdd == 1         \* bytes added to the end of a message

None == -1

Min(a, b) == IF a < b THEN a ELSE b
Max(a, b) == IF a > b THEN a ELSE b

\* Python slices s[:n] and s[n:] for n >= 0
Take(s, n) == SubSeq(s, 1, Min(n, Len(s)))
Drop(s, n) == SubSeq(s, Min(n, Len(s)) + 1, Len(s))

\* the element of a one-element set: Only({e(x) : x \in {v}}) is e of the
\* value of v, worked out once
Only(s) == CHOOSE x \in s : TRUE

\* s[1] + ... + s[n] and 1*s[1] + ... + n*s[n]
RECURSIVE SumSeq(_, _)
SumSeq(s, n) == IF n = 0 THEN 0 ELSE s[n] + SumSeq(s, n - 1)

RECURSIVE WeightedSum(_, _)
WeightedSum(s, n) == IF n = 0 THEN 0 ELSE (n * s[n]) + WeightedSum(s, n - 1)

\* chr(ord(a) ^ ord(b)) on 8-bit values
RECURSIVE XorBits(_, _, _)
XorBits(a, b, n) ==
  IF n = 0 THEN 0
  ELSE (((a % 2) + (b % 2)) % 2) + 2 * XorBits(a \div 2, b \div 2, n - 1)

Xor(a, b) == XorBits(a, b, 8)

XorSeq(s, p) == [i \in 1..Len(s) |-> Xor(s[i], p[i])]

(***************************************************************************)
(* The pad file.  Its bytes repeat a pattern whose neighbouring products   *)
(* give small fuzz lengths (0, 1, 15, 5, 0).                               *)
(***************************************************************************)
PadPattern == <<0, 171, 3, 5, 1>>

PadByte(i) == PadPattern[(i % Len(PadPattern)) + 1]

\* padfile.read(n) at position pos: short at end of file
PadRead(pos, n) ==
  [i \in 1..Min(n, Max(0, pad_size - pos)) |-> PadByte(pos + i - 1)]

(***************************************************************************)
(* Configuration: consolidation of used ranges, next offset.               *)
(***************************************************************************)
RECURSIVE ConsolidateWalk(_, _, _, _, _, _)
ConsolidateWalk(used, i, new_used, last_offset, last_length, allow_reconsumption) ==
  IF i > Len(used)
  THEN [ok |-> TRUE,
        used |-> IF last_offset # None
                 THEN Append(new_used, <<last_offset, last_length>>)
                 ELSE new_used]
  ELSE LET this_offset == used[i][1]
           this_length == used[i][2]
       IN IF last_offset # None
          THEN IF last_offset + last_length >= this_offset
               THEN IF last_offset + last_length > this_offset /\ ~allow_reconsumption
                    THEN [ok |-> FALSE, used |-> used]
                    ELSE IF (this_offset + this_length) > (last_offset + last_length)
                         THEN ConsolidateWalk(used, i + 1, new_used, last_offset,
                                              (this_offset - last_offset) + this_length,
                                              allow_reconsumption)
                         ELSE ConsolidateWalk(used, i + 1, new_used, last_offset,
                                              last_length, allow_reconsumption)
               ELSE ConsolidateWalk(used, i + 1,
                                    Append(new_used, <<last_offset, last_length>>),
                                    this_offset, this_length, allow_reconsumption)
          ELSE ConsolidateWalk(used, i + 1, new_used, this_offset, this_length,
                               allow_reconsumption)

\* Faulty variants of _consolidate_used_ranges, against which the formulas
\* below are tried: one never raises, one loses the range it ends on.
ConsolidateUsedRangesIgnoresFlag(used, allow_reconsumption) ==
  ConsolidateWalk(used, 1, <<>>, None, None, TRUE)

ConsolidateUsedRangesDropsLast(used, allow_reconsumption) ==
  Only({[ok |-> c.ok, used |-> IF c.ok THEN Take(c.used, Len(c.used) - 1) ELSE c.used]
    : c \in {ConsolidateWalk(used, 1, <<>>, None, None, allow_reconsumption)}})

\* _consolidate_used_ranges: ok = FALSE stands for ConfigurationError
ConsolidateUsedRanges(used, allow_reconsumption) ==
  ConsolidateWalk(used, 1, <<>>, None, None, allow_reconsumption)

\* Faulty variants of _get_next_offset: one looks at the first range instead
\* of the last, one leaves a byte unused after the last range.
GetNextOffsetFirstRange(used) ==
  IF used = <<>> \/ used[1][1] + used[1][2] < IdSourceLength THEN IdSourceLength
  ELSE used[1][1] + used[1][2]

GetNextOffsetSkipsOne(used) ==
  IF used = <<>> \/ used[Len(used)][1] + used[Len(used)][2] < IdSourceLength
  THEN IdSourceLength
  ELSE used[Len(used)][1] + used[Len(used)][2] + 1

GetNextOffset(used) ==
  LET cur_offset == IF used = <<>> THEN None
                    ELSE used[Len(used)][1] + used[Len(used)][2]
  IN IF cur_offset = None \/ cur_offset < IdSourceLength
     THEN IdSourceLength
     ELSE cur_offset

\* _parse_pad_records_file on a file that save() wrote (or an empty file):
\* each <used> element is appended and the list consolidated; a record
\* without <used> elements reads as [(0, 0)].
ParsePadRecordsFile(file) ==
  LET parsed == [id \in DOMAIN file |->
                   IF file[id] = <<>> THEN [ok |-> TRUE, used |-> << <<0, 0>> >>]
                   ELSE ConsolidateUsedRanges(file[id], FALSE)]
  IN [err |-> IF \A id \in DOMAIN file : parsed[id].ok THEN "none"
              ELSE "ConfigurationError",
      records |-> [id \in DOMAIN file |-> parsed[id].used]]

\* save(): what the pad-records file holds afterwards
SaveFile(records) ==
  LET written == [id \in DOMAIN records |-> ConsolidateUsedRanges(records[id], FALSE)]
  IN [err |-> IF \A id \in DOMAIN records : written[id].ok THEN "none"
              ELSE "ConfigurationError",
      file |-> [id \in DOMAIN records |-> written[id].used]]

IdInternal == "sha256"
IdOriginal == "sha1"

\* A faulty variant of register(): it copies the record kept under the old
\* identifier and leaves the old one in place.
RegisterKeepsOriginal(records) ==
  IF IdInternal \notin DOMAIN records
  THEN LET r == [id \in DOMAIN records \cup {IdInternal} |->
                   IF id # IdInternal THEN records[id]
                   ELSE IF IdOriginal \in DOMAIN records THEN records[IdOriginal]
                   ELSE <<>>]
       IN [err |-> "none", records |-> r, next_offset |-> GetNextOffset(r[IdInternal])]
  ELSE IF IdOriginal \in DOMAIN records
       THEN [err |-> "ConfigurationError", records |-> records, next_offset |-> None]
       ELSE [err |-> "none", records |-> records,
             next_offset |-> GetNextOffset(records[IdInternal])]

\* register(): the records afterwards, the offset handed to set_offset
Register(records) ==
  IF IdInternal \notin DOMAIN records
  THEN IF IdOriginal \in DOMAIN records
       THEN LET r == [id \in (DOMAIN records \ {IdOriginal}) \cup {IdInternal} |->
                        IF id = IdInternal THEN records[IdOriginal] ELSE records[id]]
            IN [err |-> "none", records |-> r, next_offset |-> GetNextOffset(r[IdInternal])]
       ELSE LET r == [id \in DOMAIN records \cup {IdInternal} |->
                        IF id = IdInternal THEN <<>> ELSE records[id]]
            IN [err |-> "none", records |-> r, next_offset |-> GetNextOffset(r[IdInternal])]
  ELSE IF IdOriginal \in DOMAIN records
       THEN [err |-> "ConfigurationError", records |-> records, next_offset |-> None]
       ELSE [err |-> "none", records |-> records,
             next_offset |-> GetNextOffset(records[IdInternal])]

\* Faulty variants of record_consumed: one lets every range overlap, one
\* records the length at the next free offset, one forgets the earlier ranges.
RecordConsumedAlwaysAllows(records, offset, length, allow_reconsumption) ==
  [err |-> "none",
   records |-> [records EXCEPT ![IdInternal] =
                  ConsolidateUsedRanges(Append(@, <<offset, length>>), TRUE).used]]

RecordConsumedAtNextOffset(records, offset, length, allow_reconsumption) ==
  [err |-> "none",
   records |-> [records EXCEPT ![IdInternal] =
                  ConsolidateUsedRanges(Append(@, <<GetNextOffset(@), length>>),
                                        TRUE).used]]

RecordConsumedForgets(records, offset, length, allow_reconsumption) ==
  [err |-> "none", records |-> [records EXCEPT ![IdInternal] = <<<<offset, length>>>>]]

\* A faulty variant of record_consumed(): the range goes to the record kept
\* under the old identifier of the pad.
RecordConsumedUnderOriginal(records, offset, length, allow_reconsumption) ==
  Only({IF c.ok
        THEN [err |-> "none",
              records |-> [id \in DOMAIN records \cup {IdOriginal} |->
                             IF id = IdOriginal THEN c.used ELSE records[id]]]
        ELSE [err |-> "ConfigurationError", records |-> records]
    : c \in {ConsolidateUsedRanges(
               Append(IF IdOriginal \in DOMAIN records THEN records[IdOriginal] ELSE <<>>,
                      <<offset, length>>),
               allow_reconsumption)}})

\* record_consumed(): the list is appended to in place, then consolidated;
\* when consolidation raises, the appended list stays in pad_records.
RecordConsumed(records, offset, length, allow_reconsumption) ==
  Only({IF c.ok
        THEN [err |-> "none", records |-> [records EXCEPT ![IdInternal] = c.used]]
        ELSE [err |-> "ConfigurationError",
              records |-> [records EXCEPT ![IdInternal] =
                             Append(@, <<offset, length>>)]]
    : c \in {ConsolidateUsedRanges(Append(records[IdInternal], <<offset, length>>),
                                   allow_reconsumption)}})

(***************************************************************************)
(* Libraries the program calls: hashlib.sha256, bz2, base64, random.       *)
(***************************************************************************)
\* sha256().digest() of everything fed to update(), as DigestLength bytes:
\* a checksum that any change of one byte or of the length changes.
Sha256Digest(data) ==
  Only({[i \in 1..DigestLength |-> (Len(data) + (i * c[1]) + c[2]) % 256] :
        c \in {<<SumSeq(data, Len(data)), WeightedSum(data, Len(data))>>}})

\* RandomEnough.rand_bytes(num): bytes of a stream fixed by the seed
RandBytes(r, num) == [i \in 1..num |-> ((r.seed * 101) + ((r.count + i) * 37)) % 256]

\* bz2: a stream is a sequence of blocks <<BzBlockMagic, n, b1..bn, checksum>>,
\* 1 <= n <= BlockSize, closed by <<BzEndMagic, trailer>>.  The high bits of
\* the trailer end the checksum of the stream; its low bits pad the stream to
\* a whole byte and are not looked at by the decompressor.
BzBlockMagic == 49
BzEndMagic == 23
BzTrailer == 144
BzPadRange == 8

BzChecksum(payload) == (WeightedSum(payload, Len(payload)) + 90) % 256

BzBlock(payload) ==
  <<BzBlockMagic, Len(payload)>> \o payload \o <<BzChecksum(payload)>>

\* BZ2Compressor.compress(string): buf is the plaintext not yet in a block
RECURSIVE BzCompress(_)
BzCompress(buf) ==
  IF Len(buf) >= BlockSize
  THEN Only({[data |-> BzBlock(Take(buf, BlockSize)) \o rest.data, buf |-> rest.buf] :
             rest \in {BzCompress(Drop(buf, BlockSize))}})
  ELSE [data |-> <<>>, buf |-> buf]

\* BZ2Compressor.flush()
BzFlush(buf) ==
  (IF buf = <<>> THEN <<>> ELSE BzBlock(buf)) \o <<BzEndMagic, BzTrailer>>

\* compress(plain) followed by flush(): the whole stream of a plaintext
Compressed(plain) ==
  Only({c.data \o BzFlush(c.buf) : c \in {BzCompress(plain)}})

\* the blocks at the front of buf: their payload, what is left, end of stream
RECURSIVE BzParse(_)
BzParse(buf) ==
  IF Len(buf) < 2 THEN
    IF buf = <<>> \/ buf[1] \in {BzBlockMagic, BzEndMagic}
    THEN [err |-> "none", data |-> <<>>, buf |-> buf, eos |-> FALSE]
    ELSE [err |-> "IOError", data |-> <<>>, buf |-> buf, eos |-> FALSE]
  ELSE IF buf[1] = BzEndMagic
  THEN IF buf[2] \div BzPadRange = BzTrailer \div BzPadRange
       THEN [err |-> "none", data |-> <<>>, buf |-> Drop(buf, 2), eos |-> TRUE]
       ELSE [err |-> "IOError", data |-> <<>>, buf |-> buf, eos |-> FALSE]
  ELSE IF buf[1] # BzBlockMagic \/ buf[2] < 1 \/ buf[2] > BlockSize
  THEN [err |-> "IOError", data |-> <<>>, buf |-> buf, eos |-> FALSE]
  ELSE IF Len(buf) < buf[2] + 3
  THEN [err |-> "none", data |-> <<>>, buf |-> buf, eos |-> FALSE]
  ELSE IF buf[buf[2] + 3] # BzChecksum(SubSeq(buf, 3, buf[2] + 2))
  THEN [err |-> "IOError", data |-> <<>>, buf |-> buf, eos |-> FALSE]
  ELSE Only({[err |-> rest.err, data |-> SubSeq(buf, 3, buf[2] + 2) \o rest.data,
              buf |-> rest.buf, eos |-> rest.eos] :
             rest \in {BzParse(Drop(buf, buf[2] + 3))}})

\* BZ2Decompressor.decompress(data): d = [buf, eos, unused]
BzDecompress(d, data) ==
  IF d.eos THEN [err |-> "EOFError", data |-> <<>>, d |-> d]
  ELSE Only({[err |-> p.err, data |-> p.data,
              d |-> [buf |-> IF p.eos THEN <<>> ELSE p.buf, eos |-> p.eos,
                     unused |-> IF p.eos THEN p.buf ELSE <<>>]] :
             p \in {BzParse(d.buf \o data)}})

\* base64: characters are the values 0..63, B64Pad stands for '='
B64Pad == 64

\* binascii.b2a_base64 of at most three bytes
B2aQuantum(b) ==
  IF Len(b) = 1
  THEN <<b[1] \div 4, (b[1] % 4) * 16, B64Pad, B64Pad>>
  ELSE IF Len(b) = 2
  THEN <<b[1] \div 4, ((b[1] % 4) * 16) + (b[2] \div 16), (b[2] % 16) * 4, B64Pad>>
  ELSE <<b[1] \div 4, ((b[1] % 4) * 16) + (b[2] \div 16),
         ((b[2] % 16) * 4) + (b[3] \div 64), b[3] % 64>>

\* binascii.b2a_base64(bytes) without the newline
B2aBase64(bytes) ==
  [k \in 1..(4 * ((Len(bytes) + 2) \div 3)) |->
     B2aQuantum(SubSeq(bytes, (3 * ((k - 1) \div 4)) + 1,
                       Min(Len(bytes), (3 * ((k - 1) \div 4)) + 3)))[((k - 1) % 4) + 1]]

\* base64.encodestring(s): one line per MaxBinSize bytes of s (lines are
\* scaled down with the fuzz lengths, so that head fuzz spans lines)
EncodeString(bytes) ==
  [n \in 1..((Len(bytes) + MaxBinSize - 1) \div MaxBinSize) |->
     B2aBase64(SubSeq(bytes, ((n - 1) * MaxBinSize) + 1,
                      Min(Len(bytes), n * MaxBinSize)))]

\* the bytes one group of four characters stands for
B64Quantum(c) ==
  IF c[3] = B64Pad THEN <<(c[1] * 4) + (c[2] \div 16)>>
  ELSE IF c[4] = B64Pad
  THEN <<(c[1] * 4) + (c[2] \div 16), ((c[2] % 16) * 16) + (c[3] \div 4)>>
  ELSE <<(c[1] * 4) + (c[2] \div 16), ((c[2] % 16) * 16) + (c[3] \div 4),
         ((c[3] % 4) * 64) + c[4]>>

\* base64.b64decode(line) of a line that encodestring wrote
B64Decode(chars) ==
  IF Len(chars) < 4 THEN <<>>
  ELSE Only({[k \in 1..((3 * (Len(chars) \div 4)) - npad) |->
                B64Quantum(SubSeq(chars, (4 * ((k - 1) \div 3)) + 1,
                                  (4 * ((k - 1) \div 3)) + 4))[((k - 1) % 3) + 1]] :
             npad \in {IF chars[Len(chars) - 1] = B64Pad THEN 2
                       ELSE IF chars[Len(chars)] = B64Pad THEN 1 ELSE 0}})

(***************************************************************************)
(* PadSession.  A method is an operator from the session's fields to the   *)
(* fields afterwards; err names the exception it raised ("none" if none),  *)
(* ret and retn carry its return values.  The statements of a method are   *)
(* nested bindings, Only({rest : x \in {statement}}), read from the last   *)
(* line of the operator upwards.                                           *)
(***************************************************************************)
Raise(S, e) == [S EXCEPT !.err = e]

\* PadSession.__init__ up to the call of config.register()
NewPadSession(no_trace) ==
  [offset |-> None, length |-> 0, pos |-> 0, no_trace |-> no_trace,
   format_level |-> "none", fuzz_remaining |-> 0,
   hashed |-> FALSE, hash |-> <<>>, tail_fuzz_length |-> None,
   head_buffer |-> <<>>, tail_buffer |-> <<>>,
   encrypting |-> FALSE, decrypting |-> FALSE, begun |-> FALSE,
   err |-> "none", ret |-> <<>>, retn |-> 0]

SetOffset(S, offset) ==
  IF offset >= pad_size THEN Raise(S, "PadShort")
  ELSE [S EXCEPT !.offset = offset, !.pos = offset]

DigestGulp(S, string) == [S EXCEPT !.hash = @ \o string]

\* A faulty variant of _initialize_hash(): the pad bytes that seed the hash
\* are read and not counted in the length of the session.
InitializeHashUncounted(S) ==
  IF S.offset + DigestSourceLength >= pad_size THEN Raise(S, "PadShort")
  ELSE IF S.hashed
  THEN Raise([S EXCEPT !.pos = Min(pad_size, @ + DigestSourceLength)], "OverPrepared")
  ELSE [S EXCEPT !.pos = Min(pad_size, @ + DigestSourceLength),
                 !.hashed = TRUE,
                 !.hash = PadRead(S.pos, DigestSourceLength)]

InitializeHash(S) ==
  IF S.offset + DigestSourceLength >= pad_size THEN Raise(S, "PadShort")
  ELSE IF S.hashed
  THEN Raise([S EXCEPT !.pos = Min(pad_size, @ + DigestSourceLength),
                       !.length = @ + DigestSourceLength], "OverPrepared")
  ELSE [S EXCEPT !.pos = Min(pad_size, @ + DigestSourceLength),
                 !.length = @ + DigestSourceLength,
                 !.hashed = TRUE,
                 !.hash = PadRead(S.pos, DigestSourceLength)]

\* fuzz_length *= ord(x) for every x of fuzz_length_source
RECURSIVE MultiplyBytes(_, _)
MultiplyBytes(fuzz_length, fuzz_length_source) ==
  IF fuzz_length_source = <<>> THEN fuzz_length
  ELSE MultiplyBytes(fuzz_length * Head(fuzz_length_source), Tail(fuzz_length_source))

\* A faulty variant of the conversion of the source bytes: their sum in place
\* of their product.
FuzzLengthOfSum(fuzz_length_source, modulo) ==
  SumSeq(fuzz_length_source, Len(fuzz_length_source)) % modulo

\* the number that the source bytes stand for
FuzzLength(fuzz_length_source, modulo) == MultiplyBytes(1, fuzz_length_source) % modulo

\* ret = the source bytes, retn = the fuzz length
GetFuzzLengthFromPad(S, num_bytes, modulo) ==
  Only({IF Len(fuzz_length_source) < num_bytes
        THEN Raise([S EXCEPT !.pos = @ + Len(fuzz_length_source),
                             !.length = @ + num_bytes], "PadShort")
        ELSE [S EXCEPT !.pos = @ + Len(fuzz_length_source),
                       !.length = @ + num_bytes,
                       !.ret = fuzz_length_source,
                       !.retn = FuzzLength(fuzz_length_source, modulo)]
    : fuzz_length_source \in {PadRead(S.pos, num_bytes)}})

\* retn = fuzz bytes still to come, ret = the unconsumed rest of string
ConsumeFuzzBytes(S, num_bytes, string, is_head_fuzz) ==
  Only({IF is_head_fuzz /\ Len(pad_data) < Min(Len(string), num_bytes)
        THEN Raise([S EXCEPT !.pos = @ + Len(pad_data),
                             !.length = @ + Min(Len(string), num_bytes)], "IndexError")
        ELSE [S EXCEPT !.pos = @ + Len(pad_data),
                       !.length = @ + Min(Len(string), num_bytes),
                       !.hash = IF is_head_fuzz
                                THEN @ \o XorSeq(Take(string, Len(pad_data)), pad_data)
                                ELSE @,
                       !.retn = Max(0, num_bytes - Len(string)),
                       !.ret = Drop(string, Min(Len(string), num_bytes))]
    : pad_data \in {PadRead(S.pos, Min(Len(string), num_bytes))}})

\* ret = the encrypted fuzz; rnd_data are the num_bytes random bytes drawn
MakeFuzz(S, num_bytes, is_head_fuzz, rnd_data) ==
  Only({IF Len(pad_data) < num_bytes
        THEN Raise([S EXCEPT !.pos = @ + Len(pad_data), !.length = @ + num_bytes],
                   "IndexError")
        ELSE [S EXCEPT !.pos = @ + Len(pad_data),
                       !.length = @ + num_bytes,
                       !.hash = IF is_head_fuzz THEN @ \o rnd_data ELSE @,
                       !.ret = XorSeq(rnd_data, pad_data)]
    : pad_data \in {PadRead(S.pos, num_bytes)}})

\* ord(self.padfile.read(1)); self._length += 1: retn = the byte
ReadPadByte(S) ==
  IF S.pos >= pad_size THEN Raise(S, "TypeError")
  ELSE [S EXCEPT !.pos = @ + 1, !.length = @ + 1, !.retn = PadByte(S.pos)]

\* ret = the inner header
MakeInnerHeader(S, r) ==
  IF S.offset = None THEN Raise(S, "PadSessionUninitialized") ELSE
  Only({IF a.err # "none" THEN a ELSE
  Only({IF b.err # "none" THEN b ELSE
  Only({IF h.err # "none" THEN h ELSE
  Only({IF t.err # "none" THEN t ELSE
  Only({IF i.err # "none" THEN i ELSE
  Only({IF f.err # "none" THEN f ELSE
        [f EXCEPT !.ret = <<Xor(0, a.retn), Xor(0, b.retn)>>
                          \o h.ret \o t.ret \o f.ret,
                  !.retn = h.retn]
    : f \in {MakeFuzz(i, h.retn, TRUE, RandBytes(r, h.retn))}})
    : i \in {InitializeHash([t EXCEPT !.tail_fuzz_length = t.retn])}})
    : t \in {GetFuzzLengthFromPad(h, DefaultFuzzSourceLength, DefaultFuzzSourceModulo)}})
    : h \in {GetFuzzLengthFromPad(b, DefaultFuzzSourceLength, DefaultFuzzSourceModulo)}})
    : b \in {ReadPadByte(a)}})
    : a \in {ReadPadByte(S)}})

PrepareForEncryption(S, r) ==
  IF S.encrypting THEN Raise(S, "OverPrepared")
  ELSE IF S.decrypting THEN Raise(S, "OverPrepared")
  ELSE Only({IF m.err # "none" THEN m
             ELSE [m EXCEPT !.head_buffer = m.ret, !.encrypting = TRUE]
         : m \in {MakeInnerHeader(S, r)}})

\* A faulty variant of prepare_for_decryption(): it does not look at the role
\* the session has.
PrepareForDecryptionUnchecked(S) == [S EXCEPT !.decrypting = TRUE]

PrepareForDecryption(S) ==
  IF S.decrypting THEN Raise(S, "OverPrepared")
  ELSE IF S.encrypting THEN Raise(S, "OverPrepared")
  ELSE [S EXCEPT !.decrypting = TRUE]

\* A faulty variant of the check of the unused flag bits: it looks at bit 1
\* only.
UnknownFlagsSetLowOnly(first_flag_byte) == (first_flag_byte \div 2) % 2 # 0

\* one of the bits 1..7 of the first flag byte is set
UnknownFlagsSet(first_flag_byte) == first_flag_byte \div 2 # 0

\* A faulty variant of _handle_inner_header(): the fuzz lengths are computed
\* from the source bytes the message carries, not from those of the pad.
HandleInnerHeaderFromMessage(S, string) ==
  IF S.offset = None THEN Raise(S, "PadSessionUninitialized") ELSE
  Only({IF a.err # "none" THEN a
        ELSE IF Len(string) < 1 THEN Raise(a, "IndexError")
        ELSE IF Xor(string[1], a.retn) # 0 THEN Raise(a, "InnerFormat")
        ELSE IF Len(string) < 2 THEN Raise(a, "IndexError") ELSE
  Only({IF b.err # "none" THEN b
        ELSE IF Xor(string[2], b.retn) % 2 # 0 THEN Raise(b, "InnerFormat") ELSE
  Only({IF h.err # "none" THEN h ELSE
  Only({IF t.err # "none" THEN t ELSE
  Only({IF i.err # "none" THEN i ELSE
  Only({IF c.err # "none" THEN c
        ELSE IF UnknownFlagsSet(Xor(string[2], b.retn)) THEN Raise(c, "InnerFormat")
        ELSE IF Len(string) < 2 + (DefaultFuzzSourceLength * 2) + h.retn
        THEN [c EXCEPT !.ret = <<>>,
                       !.retn = (2 + (DefaultFuzzSourceLength * 2) + h.retn)
                                - Len(string)]
        ELSE [c EXCEPT !.ret = Drop(string, 2 + (DefaultFuzzSourceLength * 2) + h.retn),
                       !.retn = 0]
    : c \in {ConsumeFuzzBytes(i, h.retn,
                              Drop(string, 2 + (DefaultFuzzSourceLength * 2)), TRUE)}})
    : i \in {InitializeHash([t EXCEPT !.tail_fuzz_length = t.retn])}})
    : t \in {Only({IF g.err # "none" \/ Len(string) < 6 THEN g
                    ELSE [g EXCEPT !.retn = FuzzLength(SubSeq(string, 5, 6),
                                                       DefaultFuzzSourceModulo)]
               : g \in {GetFuzzLengthFromPad(h, DefaultFuzzSourceLength,
                                             DefaultFuzzSourceModulo)}})}})
    : h \in {Only({IF g.err # "none" \/ Len(string) < 4 THEN g
                    ELSE [g EXCEPT !.retn = FuzzLength(SubSeq(string, 3, 4),
                                                       DefaultFuzzSourceModulo)]
               : g \in {GetFuzzLengthFromPad(b, DefaultFuzzSourceLength,
                                             DefaultFuzzSourceModulo)}})}})
    : b \in {ReadPadByte(a)}})
    : a \in {ReadPadByte(S)}})

\* ret = the rest of string, retn = the fuzz length still to be consumed
HandleInnerHeader(S, string) ==
  IF S.offset = None THEN Raise(S, "PadSessionUninitialized") ELSE
  Only({IF a.err # "none" THEN a
        ELSE IF Len(string) < 1 THEN Raise(a, "IndexError")
        ELSE IF Xor(string[1], a.retn) # 0 THEN Raise(a, "InnerFormat")
        ELSE IF Len(string) < 2 THEN Raise(a, "IndexError") ELSE
  Only({IF b.err # "none" THEN b
        ELSE IF Xor(string[2], b.retn) % 2 # 0 THEN Raise(b, "InnerFormat") ELSE
  Only({IF h.err # "none" THEN h ELSE
  Only({IF t.err # "none" THEN t ELSE
  Only({IF i.err # "none" THEN i ELSE
  Only({IF c.err # "none" THEN c
        ELSE IF UnknownFlagsSet(Xor(string[2], b.retn)) THEN Raise(c, "InnerFormat")
        ELSE IF Len(string) < 2 + (DefaultFuzzSourceLength * 2) + h.retn
        THEN [c EXCEPT !.ret = <<>>,
                       !.retn = (2 + (DefaultFuzzSourceLength * 2) + h.retn)
                                - Len(string)]
        ELSE [c EXCEPT !.ret = Drop(string, 2 + (DefaultFuzzSourceLength * 2) + h.retn),
                       !.retn = 0]
    : c \in {ConsumeFuzzBytes(i, h.retn,
                              Drop(string, 2 + (DefaultFuzzSourceLength * 2)), TRUE)}})
    : i \in {InitializeHash([t EXCEPT !.tail_fuzz_length = t.retn])}})
    : t \in {GetFuzzLengthFromPad(h, DefaultFuzzSourceLength, DefaultFuzzSourceModulo)}})
    : h \in {GetFuzzLengthFromPad(b, DefaultFuzzSourceLength, DefaultFuzzSourceModulo)}})
    : b \in {ReadPadByte(a)}})
    : a \in {ReadPadByte(S)}})

\* convert(), not yet begun and decrypting: the inner header
ConvertHeader(S, string) ==
  Only({IF h.err # "none" THEN h
        ELSE IF h.ret # <<>> /\ h.retn # 0 THEN Raise(h, "InnerFormat")
        ELSE IF h.retn > 0 THEN [h EXCEPT !.fuzz_remaining = h.retn]
        ELSE h
    : h \in {HandleInnerHeader(S, string)}})

\* convert(): head fuzz left over from earlier calls
ConvertFuzz(S, string) ==
  Only({IF c.err # "none" THEN c
        ELSE [c EXCEPT !.fuzz_remaining = @ + c.retn]
    : c \in {ConsumeFuzzBytes(
               [S EXCEPT !.fuzz_remaining = IF @ > Len(string) THEN @ - Len(string)
                                            ELSE 0],
               IF S.fuzz_remaining > Len(string) THEN Len(string)
               ELSE S.fuzz_remaining,
               string, TRUE)}})

\* A faulty variant of the tail buffer: it keeps back the digest alone.
ConvertTailKeepsDigestOnly(S, string) ==
  Only({IF Len(tb) < DigestLength
        THEN [S EXCEPT !.tail_buffer = tb, !.ret = <<>>]
        ELSE [S EXCEPT !.tail_buffer = Drop(tb, Len(tb) - DigestLength),
                       !.ret = Take(tb, Len(tb) - DigestLength)]
    : tb \in {S.tail_buffer \o string}})

\* A faulty variant of the tail buffer: it keeps back one byte more than the
\* digest and the tail fuzz.
ConvertTailKeepsOneMore(S, string) ==
  IF S.tail_fuzz_length = None THEN Raise(S, "TypeError")
  ELSE Only({IF Len(tb) < DigestLength + S.tail_fuzz_length + 1
             THEN [S EXCEPT !.tail_buffer = tb, !.ret = <<>>]
             ELSE [S EXCEPT !.tail_buffer =
                              Drop(tb, Len(tb) - (DigestLength + S.tail_fuzz_length + 1)),
                            !.ret =
                              Take(tb, Len(tb) - (DigestLength + S.tail_fuzz_length + 1))]
         : tb \in {S.tail_buffer \o string}})

\* convert(), decrypting: keep digest and tail fuzz back in the tail buffer
ConvertTail(S, string) ==
  IF S.tail_fuzz_length = None THEN Raise(S, "TypeError")
  ELSE Only({IF Len(tb) < DigestLength + S.tail_fuzz_length
             THEN [S EXCEPT !.tail_buffer = tb, !.ret = <<>>]
             ELSE [S EXCEPT !.tail_buffer =
                              Drop(tb, Len(tb) - (DigestLength + S.tail_fuzz_length)),
                            !.ret =
                              Take(tb, Len(tb) - (DigestLength + S.tail_fuzz_length))]
         : tb \in {S.tail_buffer \o string}})

\* convert(), format level "internal": ret = what is left of string to XOR
ConvertInternal(S, string) ==
  IF S.encrypting /\ S.decrypting THEN Raise(S, "OverPrepared")
  ELSE IF ~S.encrypting /\ ~S.decrypting THEN Raise(S, "PadSessionUninitialized") ELSE
  Only({IF b.err # "none" THEN b ELSE
  Only({IF c.err # "none" THEN c
        ELSE IF c.decrypting THEN ConvertTail(c, c.ret)
        ELSE c
    : c \in {IF b.fuzz_remaining > 0 THEN ConvertFuzz(b, b.ret) ELSE b}})
    : b \in {IF ~S.begun /\ S.decrypting THEN ConvertHeader(S, string)
             ELSE [S EXCEPT !.ret = string]}})

\* convert(): the XOR against the pad, common to both format levels
ConvertXor(S, string) ==
  Only({IF Len(pad_str) < Len(string)
        THEN Raise([S EXCEPT !.pos = @ + Len(pad_str)], "PadShort")
        ELSE [S EXCEPT !.pos = @ + Len(pad_str),
                       !.length = @ + Len(string),
                       !.begun = TRUE,
                       !.ret = S.head_buffer \o XorSeq(string, pad_str),
                       !.head_buffer = <<>>]
    : pad_str \in {PadRead(S.pos, Len(string))}})

Convert(S, string, format_level) ==
  IF S.offset = None THEN Raise(S, "PadSessionUninitialized")
  ELSE IF S.format_level # "none" /\ S.format_level # format_level
  THEN Raise(S, "FormatLevel")
  ELSE Only({IF a.err # "none" THEN a ELSE ConvertXor(a, a.ret)
         : a \in {IF format_level = "internal"
                  THEN ConvertInternal([S EXCEPT !.format_level = format_level], string)
                  ELSE [S EXCEPT !.format_level = format_level, !.ret = string]}})

VerifyDigest(S) ==
  Only({IF Len(S.tail_buffer) < DigestLength \/ Len(pad_bytes) < DigestLength
        THEN Raise([S EXCEPT !.pos = @ + Len(pad_bytes), !.length = @ + DigestLength],
                   "IndexError")
        ELSE IF Sha256Digest(S.hash) # XorSeq(Take(S.tail_buffer, DigestLength), pad_bytes)
        THEN Raise([S EXCEPT !.pos = @ + Len(pad_bytes), !.length = @ + DigestLength,
                             !.tail_buffer = Drop(@, DigestLength)], "DigestMismatch")
        ELSE [S EXCEPT !.pos = @ + Len(pad_bytes), !.length = @ + DigestLength,
                       !.tail_buffer = Drop(@, DigestLength)]
    : pad_bytes \in {PadRead(S.pos, DigestLength)}})

\* A faulty variant of finish(): decrypting, it leaves the tail fuzz alone.
FinishTailSkipsTailFuzz(S, r) ==
  IF S.format_level # "internal" THEN [S EXCEPT !.ret = <<>>]
  ELSE IF S.tail_fuzz_length = None THEN Raise(S, "PadSessionUninitialized")
  ELSE IF S.encrypting
  THEN Only({IF c.err # "none" THEN c ELSE
       Only({IF f.err # "none" THEN f ELSE [f EXCEPT !.ret = c.ret \o f.ret]
         : f \in {MakeFuzz(c, c.tail_fuzz_length, FALSE,
                           RandBytes(r, c.tail_fuzz_length))}})
         : c \in {Convert(S, Sha256Digest(S.hash), "internal")}})
  ELSE Only({IF v.err # "none" THEN v ELSE [v EXCEPT !.ret = <<>>]
         : v \in {VerifyDigest(S)}})

\* finish() up to the call of config.record_consumed(): ret = remainder
FinishTail(S, r) ==
  IF S.format_level # "internal" THEN [S EXCEPT !.ret = <<>>]
  ELSE IF S.tail_fuzz_length = None THEN Raise(S, "PadSessionUninitialized")
  ELSE IF S.encrypting
  THEN Only({IF c.err # "none" THEN c ELSE
       Only({IF f.err # "none" THEN f ELSE [f EXCEPT !.ret = c.ret \o f.ret]
         : f \in {MakeFuzz(c, c.tail_fuzz_length, FALSE,
                           RandBytes(r, c.tail_fuzz_length))}})
         : c \in {Convert(S, Sha256Digest(S.hash), "internal")}})
  ELSE IF S.decrypting
  THEN Only({IF v.err # "none" THEN v ELSE
       Only({IF c.retn # 0 \/ c.ret # <<>> THEN Raise(c, "FuzzMismatch")
             ELSE [c EXCEPT !.ret = <<>>]
         : c \in {ConsumeFuzzBytes(v, v.tail_fuzz_length, v.tail_buffer, FALSE)}})
         : v \in {VerifyDigest(S)}})
  ELSE Raise(S, "OverPrepared")

(***************************************************************************)
(* The runs of main(): one session at a time, each opening the             *)
(* pad-records file of its config area.                                    *)
(***************************************************************************)
Areas == {"alice", "bob"}
PadSizes == {191, 272}
ExplicitOffsets == {32, 33, 34, 35, 109, 129, 190}
RandSeeds == {0, 1}
PlainAlphabet == {65, 66}
Plaintexts == UNION {[1..n -> PlainAlphabet] : n \in 0..MaxPlainLen}

\* Runs explored: one encryption over every plaintext, seed and offset, then
\* decryptions; and longer runs over one plaintext and fewer offsets.
Wide == [sessions |-> WideSessions, encryptions |-> 1,
         plains |-> Plaintexts, seeds |-> RandSeeds, offsets |-> ExplicitOffsets,
         tamper |-> FALSE, shorten |-> FALSE]
Deep == [sessions |-> MaxSessions, encryptions |-> MaxSessions,
         plains |-> {<<65>>}, seeds |-> {0}, offsets |-> {32, 33, 35, 109, 129},
         tamper |-> FALSE, shorten |-> FALSE]

NoMsg == [offset |-> None, lines |-> <<>>, plain |-> <<>>, length |-> 0,
          head |-> 0, tail |-> 0]
NoTamper == [kind |-> "none", region |-> "none", at |-> 0]
NoJob == [role |-> "none", area |-> "none", explicit |-> FALSE, plain |-> <<>>,
          msg |-> NoMsg, tamper |-> NoTamper]
NoRandy == [seed |-> 0, count |-> 0]
NoDecomp == [buf |-> <<>>, eos |-> FALSE, unused |-> <<>>]
NoCons == [pass |-> 0, allow |-> FALSE, x |-> <<>>, y |-> <<>>, ok |-> TRUE,
           allow2 |-> FALSE, z |-> <<>>, ok2 |-> TRUE]

\* incoming.read(8192), scaled: the plaintext in chunks of ReadChunk bytes
RECURSIVE ReadChunks(_)
ReadChunks(plain) ==
  IF plain = <<>> THEN <<>>
  ELSE <<Take(plain, ReadChunk)>> \o ReadChunks(Drop(plain, ReadChunk))

\* no run has started: empty pad-records files, nothing in memory
Quiet ==
  /\ disk = [a \in Areas |-> <<>>]
  /\ sess = NewPadSession(FALSE)
  /\ pc = "idle"
  /\ randy = NoRandy
  /\ comp = <<>>
  /\ decomp = NoDecomp
  /\ inp = <<>>
  /\ out = <<>>
  /\ cur = NoJob
  /\ msgs = {}
  /\ hist = <<>>
  /\ disk0 = <<>>
  /\ nsess = 0

Init ==
  /\ pad_size \in PadSizes
  /\ pad_records = <<>>
  /\ scope \in {Wide, Deep}
  /\ cons = NoCons
  /\ Quiet

\* main() is started to encrypt or to decrypt, and builds
\* PadSession(pad_file, config_area, no_trace, test_mode): Configuration
\* parses the file, register() sets the offset
NewSession(area, role) ==
  /\ pc = "idle"
  /\ nsess < scope.sessions
  /\ nsess = 0 => area = "alice"   \* the areas are interchangeable
  /\ role = "enc" => nsess < scope.encryptions
  /\ role = "dec" => msgs # {}
  /\ \E parsed \in {ParsePadRecordsFile(disk[area])} :
     \E reg \in {Register(parsed.records)} :
     \E S \in {IF parsed.err # "none" THEN Raise(NewPadSession(FALSE), parsed.err)
               ELSE IF reg.err # "none" THEN Raise(NewPadSession(FALSE), reg.err)
               ELSE SetOffset(NewPadSession(FALSE), reg.next_offset)} :
        /\ sess' = S
        /\ pad_records' = IF parsed.err # "none" THEN <<>> ELSE reg.records
        /\ pc' = IF S.err # "none" THEN "failed" ELSE "open"
  /\ cur' = [NoJob EXCEPT !.area = area, !.role = role]
  /\ disk0' = disk[area]
  /\ nsess' = nsess + 1
  /\ UNCHANGED <<pad_size, disk, randy, comp, decomp, inp, out, msgs, hist, scope, cons>>

\* main(): --offset=N
MainSetOffset(offset) ==
  /\ pc = "open"
  /\ cur.role = "enc"
  /\ ~cur.explicit
  /\ offset \in scope.offsets
  /\ offset >= IdSourceLength
  /\ \E S \in {SetOffset(sess, offset)} :
        /\ sess' = S
        /\ pc' = IF S.err # "none" THEN "failed" ELSE "open"
  /\ cur' = [cur EXCEPT !.explicit = TRUE]
  /\ UNCHANGED <<pad_size, disk, pad_records, randy, comp, decomp, inp, out, msgs,
                 hist, disk0, nsess, scope, cons>>

\* main(), encrypting: SessionEncoder(pad_sess)
NewSessionEncoder(plain, seed) ==
  /\ pc = "open"
  /\ cur.role = "enc"
  /\ plain \in scope.plains
  /\ seed \in scope.seeds
  /\ \E S \in {PrepareForEncryption(sess, [seed |-> seed, count |-> 0])} :
        /\ sess' = S
        /\ pc' = IF S.err # "none" THEN "failed" ELSE "enc"
        /\ randy' = [seed |-> seed, count |-> IF S.err # "none" THEN 0 ELSE S.retn]
  /\ cur' = [cur EXCEPT !.plain = plain]
  /\ inp' = ReadChunks(plain)
  /\ comp' = <<>>
  /\ out' = <<>>
  /\ UNCHANGED <<pad_size, disk, pad_records, decomp, msgs, hist, disk0, nsess, scope, cons>>

\* SessionEncoder.encode(string) on the next chunk read
Encode ==
  /\ pc = "enc"
  /\ inp # <<>>
  /\ \E c \in {BzCompress(comp \o Head(inp))} :
     \E v \in {IF c.data # <<>> THEN Convert(sess, c.data, "internal") ELSE sess} :
        /\ comp' = c.buf
        /\ sess' = IF v.err # "none" THEN v ELSE DigestGulp(v, Head(inp))
        /\ pc' = IF v.err # "none" THEN "failed" ELSE "enc"
        /\ out' = IF c.data # <<>> /\ v.err = "none" THEN out \o EncodeString(v.ret)
                  ELSE out
  /\ inp' = Tail(inp)
  /\ UNCHANGED <<pad_size, disk, pad_records, randy, decomp, cur, msgs, hist, disk0,
                 nsess, scope, cons>>

\* A faulty variant of the argument finish() hands to record_consumed():
\* reconsumption is allowed to the encrypting session.
AllowReconsumptionWhenEncrypting(S) == S.encrypting

\* finish(): the argument of record_consumed()
AllowReconsumption(S) == S.decrypting

\* A faulty variant of the end of finish(): it saves whatever ranges it was
\* given, merged, and reports the error afterwards.
BookkeepingSavesAnyway(S) ==
  Only({Only({[err |-> rc.err,
               records |-> rc.records,
               allow |-> S.decrypting,
               file |-> sv.records]
    : sv \in {RecordConsumedAlwaysAllows(pad_records, S.offset, S.length,
                                         S.decrypting)}})
    : rc \in {RecordConsumed(pad_records, S.offset, S.length, S.decrypting)}})

\* the end of finish(): record_consumed(self._decrypting), then save()
\* unless no_trace.  S is the session after the tail has been handled;
\* allow tells what record_consumed() was called with.
Bookkeeping(S) ==
  Only({Only({Only({[err |-> IF rc.err # "none" THEN rc.err
                             ELSE IF ~S.no_trace THEN sv.err
                             ELSE "none",
                     records |-> rc.records,
                     allow |-> allow,
                     file |-> IF rc.err = "none" /\ ~S.no_trace /\ sv.err = "none"
                              THEN sv.file
                              ELSE disk[cur.area]]
    : sv \in {SaveFile(rc.records)}})
    : rc \in {RecordConsumed(pad_records, S.offset, S.length, allow)}})
    : allow \in {AllowReconsumption(S)}})

\* SessionEncoder.finish() at end of input
EncoderFinish ==
  /\ pc = "enc"
  /\ inp = <<>>
  /\ \E v \in {Convert(sess, BzFlush(comp), "internal")} :
     \E f \in {IF v.err # "none" THEN v ELSE FinishTail(v, randy)} :
     \E b \in {IF f.err # "none" THEN [err |-> f.err, records |-> pad_records,
                                       allow |-> FALSE, file |-> disk[cur.area]]
               ELSE Bookkeeping(f)} :
     \E lines \in {IF b.err # "none" THEN out ELSE out \o EncodeString(v.ret \o f.ret)} :
        /\ sess' = Raise(f, b.err)
        /\ pc' = IF b.err # "none" THEN "failed" ELSE "done"
        /\ pad_records' = b.records
        /\ disk' = [disk EXCEPT ![cur.area] = b.file]
        /\ out' = lines
        /\ msgs' = IF b.err # "none" THEN msgs
                   ELSE msgs \cup {[offset |-> f.offset, lines |-> lines,
                                    plain |-> cur.plain, length |-> f.length,
                                    head |-> randy.count,
                                    tail |-> f.tail_fuzz_length]}
        /\ hist' = IF b.err # "none" THEN hist
                   ELSE Append(hist, [role |-> "enc", area |-> cur.area,
                                      auto |-> ~cur.explicit, allow |-> b.allow,
                                      offset |-> f.offset, length |-> f.length,
                                      before |-> disk0, after |-> b.file])
  /\ comp' = <<>>
  /\ UNCHANGED <<pad_size, randy, decomp, inp, cur, disk0, nsess, scope, cons>>

\* main(), decrypting: the Format: header builds the SessionDecoder, the
\* Offset: header sets the offset
NewSessionDecoder(m) ==
  /\ pc = "open"
  /\ cur.role = "dec"
  /\ \E d \in {PrepareForDecryption(sess)} :
     \E S \in {IF d.err # "none" THEN d ELSE SetOffset(d, m.offset)} :
        /\ sess' = S
        /\ pc' = IF S.err # "none" THEN "failed" ELSE "dec"
  /\ cur' = [cur EXCEPT !.msg = m, !.plain = m.plain]
  /\ inp' = Append(m.lines, <<>>)
  /\ decomp' = NoDecomp
  /\ out' = <<>>
  /\ UNCHANGED <<pad_size, disk, pad_records, randy, comp, msgs, hist, disk0, nsess,
                 scope, cons>>

\* SessionDecoder.decode(string) on the next line read, and main()'s
\* handling of EOFError on the blank line that ends the body
Decode ==
  /\ pc = "dec"
  /\ inp # <<>>
  /\ \E v \in {Convert(sess, B64Decode(Head(inp)), "internal")} :
     \E d \in {IF v.err # "none" THEN [err |-> v.err, data |-> <<>>, d |-> decomp]
               ELSE BzDecompress(decomp, v.ret)} :
     \E e \in {IF d.err = "EOFError"
               THEN IF Head(inp) = <<>> THEN "none" ELSE "DecodingError"
               ELSE d.err} :
        /\ sess' = IF d.err # "none" THEN Raise(v, e) ELSE DigestGulp(v, d.data)
        /\ pc' = IF e # "none" THEN "failed" ELSE "dec"
        /\ decomp' = IF d.err # "none" THEN decomp
                     ELSE [d.d EXCEPT !.unused = decomp.unused \o d.d.unused]
        /\ out' = IF d.err # "none" THEN out ELSE out \o d.data
  /\ inp' = Tail(inp)
  /\ UNCHANGED <<pad_size, disk, pad_records, randy, comp, cur, msgs, hist, disk0,
                 nsess, scope, cons>>

\* SessionDecoder.finish() after the end line
DecoderFinish ==
  /\ pc = "dec"
  /\ inp = <<>>
  /\ \E f \in {FinishTail(sess, randy)} :
     \E b \in {IF f.err # "none" THEN [err |-> f.err, records |-> pad_records,
                                       allow |-> FALSE, file |-> disk[cur.area]]
               ELSE Bookkeeping(f)} :
        /\ sess' = Raise(f, b.err)
        /\ pc' = IF b.err # "none" THEN "failed" ELSE "done"
        /\ pad_records' = b.records
        /\ disk' = [disk EXCEPT ![cur.area] = b.file]
        /\ hist' = IF b.err # "none" THEN hist
                   ELSE Append(hist, [role |-> "dec", area |-> cur.area,
                                      auto |-> FALSE, allow |-> b.allow,
                                      offset |-> f.offset, length |-> f.length,
                                      before |-> disk0, after |-> b.file])
  /\ UNCHANGED <<pad_size, randy, comp, decomp, inp, out, cur, msgs, disk0, nsess, scope, cons>>

\* the process exits; the next run starts from the files alone
EndSession ==
  /\ pc \in {"done", "failed", "dropped"}
  /\ pc' = "idle"
  /\ sess' = NewPadSession(FALSE)
  /\ pad_records' = <<>>
  /\ randy' = NoRandy
  /\ comp' = <<>>
  /\ decomp' = NoDecomp
  /\ inp' = <<>>
  /\ out' = <<>>
  /\ cur' = NoJob
  /\ disk0' = <<>>
  /\ UNCHANGED <<pad_size, disk, msgs, hist, nsess, scope, cons>>

Next ==
  \/ \E area \in Areas, role \in {"enc", "dec"} : NewSession(area, role)
  \/ \E offset \in ExplicitOffsets : MainSetOffset(offset)
  \/ \E plain \in Plaintexts, seed \in RandSeeds : NewSessionEncoder(plain, seed)
  \/ Encode
  \/ EncoderFinish
  \/ \E m \in msgs : NewSessionDecoder(m)
  \/ Decode
  \/ DecoderFinish
  \/ EndSession

Spec == Init /\ [][Next]_vars

(***************************************************************************)
(* Runs whose input is not what an encryption wrote (a byte of the armored *)
(* message changed, bytes cut from or added to its end), runs with a       *)
(* shorter copy of the pad file, and runs abandoned before finish().       *)
(***************************************************************************)
TamperMasks == {1, 128}
ShortPadSizes == {188}

Forged == [sessions |-> 2, encryptions |-> 1,
           plains |-> {<<65>>, <<65, 66>>}, seeds |-> {0}, offsets |-> {34, 35},
           tamper |-> TRUE, shorten |-> FALSE]
Truncated == [sessions |-> MaxSessions, encryptions |-> 2,
              plains |-> {<<65>>}, seeds |-> {0}, offsets |-> {109, 129},
              tamper |-> FALSE, shorten |-> TRUE]

\* the bytes each armored line stands for, and how many they are in all
LineLengths(lines) == [i \in DOMAIN lines |-> Len(B64Decode(lines[i]))]

WireLength(lines) == SumSeq(LineLengths(lines), Len(lines))

\* byte k of the message (counted from 1) XORed with mask, in its line
ChangeByte(lines, k, mask) ==
  Only({Only({[lines EXCEPT ![i] =
                 B2aBase64([B64Decode(@) EXCEPT ![k - SumSeq(lens, i - 1)] =
                              Xor(@, mask)])]
    : i \in {CHOOSE i \in DOMAIN lines :
                SumSeq(lens, i - 1) < k /\ k <= SumSeq(lens, i)}})
    : lens \in {LineLengths(lines)}})

\* the n bytes from byte k on, each XORed with mask
RECURSIVE ChangeBytes(_, _, _, _)
ChangeBytes(lines, k, n, mask) ==
  IF n = 0 THEN lines
  ELSE Only({ChangeBytes(changed, k + 1, n - 1, mask)
         : changed \in {ChangeByte(lines, k, mask)}})

\* where byte k lies in the message m: the inner header, the head fuzz, the
\* body, the digest or the tail fuzz (the pad bytes that seed the hash are
\* part of the length of the session but not of the message)
Region(m, k) ==
  IF k <= 2 + (2 * DefaultFuzzSourceLength) THEN "header"
  ELSE IF k <= 2 + (2 * DefaultFuzzSourceLength) + m.head THEN "head"
  ELSE IF k <= (m.length - DigestSourceLength) - (DigestLength + m.tail) THEN "body"
  ELSE IF k <= (m.length - DigestSourceLength) - m.tail THEN "digest"
  ELSE "tail"

InitTamper ==
  /\ pad_size \in PadSizes
  /\ pad_records = <<>>
  /\ scope \in {Forged, Truncated}
  /\ cons = NoCons
  /\ Quiet

\* one byte of the message is changed before main() reads the body
TamperByte(mask) ==
  /\ pc = "dec"
  /\ scope.tamper
  /\ cur.tamper = NoTamper
  /\ sess.format_level = "none"
  /\ \E k \in 1..WireLength(inp) :
        /\ inp' = ChangeByte(inp, k, mask)
        /\ cur' = [cur EXCEPT !.tamper = [kind |-> "byte",
                                          region |-> Region(cur.msg, k), at |-> k]]
  /\ UNCHANGED <<pad_size, disk, pad_records, sess, pc, randy, comp, decomp, out, msgs,
                 hist, disk0, nsess, scope, cons>>

\* every byte of the tail fuzz is changed before main() reads the body
TamperTail(mask) ==
  /\ pc = "dec"
  /\ scope.tamper
  /\ cur.tamper = NoTamper
  /\ sess.format_level = "none"
  /\ cur.msg.tail > 1
  /\ \E k \in {(cur.msg.length - DigestSourceLength) - cur.msg.tail + 1} :
        /\ inp' = ChangeBytes(inp, k, cur.msg.tail, mask)
        /\ cur' = [cur EXCEPT !.tamper = [kind |-> "bytes", region |-> "tail", at |-> k]]
  /\ UNCHANGED <<pad_size, disk, pad_records, sess, pc, randy, comp, decomp, out, msgs,
                 hist, disk0, nsess, scope, cons>>

\* the last n bytes of the message are cut off (the end line stays)
CutEnd(n) ==
  /\ pc = "dec"
  /\ scope.tamper
  /\ cur.tamper = NoTamper
  /\ sess.format_level = "none"
  /\ Len(inp) >= 2
  /\ \E last \in {B64Decode(inp[Len(inp) - 1])} :
        /\ n <= Len(last)
        /\ inp' = IF n = Len(last)
                   THEN Append(Take(inp, Len(inp) - 2), <<>>)
                   ELSE [inp EXCEPT ![Len(inp) - 1] =
                           B2aBase64(Take(last, Len(last) - n))]
  /\ cur' = [cur EXCEPT !.tamper = [kind |-> "cut", region |-> "end", at |-> n]]
  /\ UNCHANGED <<pad_size, disk, pad_records, sess, pc, randy, comp, decomp, out, msgs,
                 hist, disk0, nsess, scope, cons>>

\* n bytes are added to the end of the message
AddEnd(n, byte) ==
  /\ pc = "dec"
  /\ scope.tamper
  /\ cur.tamper = NoTamper
  /\ sess.format_level = "none"
  /\ Len(inp) >= 2
  /\ inp' = [inp EXCEPT ![Len(inp) - 1] =
               B2aBase64(B64Decode(@) \o [i \in 1..n |-> byte])]
  /\ cur' = [cur EXCEPT !.tamper = [kind |-> "add", region |-> "end", at |-> n]]
  /\ UNCHANGED <<pad_size, disk, pad_records, sess, pc, randy, comp, decomp, out, msgs,
                 hist, disk0, nsess, scope, cons>>

\* the next runs are given a copy of the pad file that ends early
ShortenPad(size) ==
  /\ pc = "idle"
  /\ scope.shorten
  /\ msgs # {}
  /\ size < pad_size
  /\ pad_size' = size
  /\ UNCHANGED <<disk, pad_records, sess, pc, randy, comp, decomp, inp, out, cur, msgs,
                 hist, disk0, nsess, scope, cons>>

\* the caller drops the session before finish(): the process ends there
DropSession ==
  /\ pc \in {"open", "enc", "dec"}
  /\ pc' = "dropped"
  /\ UNCHANGED <<pad_size, disk, pad_records, sess, randy, comp, decomp, inp, out, cur,
                 msgs, hist, disk0, nsess, scope, cons>>

NextTamper ==
  \/ Next
  \/ \E mask \in TamperMasks : TamperByte(mask)
  \/ \E mask \in TamperMasks : TamperTail(mask)
  \/ \E n \in 1..MaxCut : CutEnd(n)
  \/ \E n \in 1..MaxAdd, byte \in TamperMasks : AddEnd(n, byte)
  \/ \E size \in ShortPadSizes : ShortenPad(size)
  \/ DropSession

SpecTamper == InitTamper /\ [][NextTamper]_vars

(***************************************************************************)
(* Runs in which the session is used in other ways than main() uses it on  *)
(* a message as written: the body of the message wrapped into lines of     *)
(* other lengths (each line is one call of convert()), a byte of the inner *)
(* header changed, a session prepared twice, convert() before prepare.     *)
(***************************************************************************)
MaxFirst == 8       \* bytes in the first line of a rewrapped message
WrapWidths == {1, 3, MaxBinSize}
HeaderMasks == 1..255

Wrapped == [sessions |-> 2, encryptions |-> 1,
            plains |-> {<<65>>, <<65, 66>>}, seeds |-> {0}, offsets |-> {34, 35},
            tamper |-> FALSE, shorten |-> FALSE]

\* the bytes the armored lines stand for, and bytes as lines of width bytes
RECURSIVE BodyBytes(_)
BodyBytes(lines) ==
  IF lines = <<>> THEN <<>> ELSE B64Decode(Head(lines)) \o BodyBytes(Tail(lines))

RECURSIVE WrapAt(_, _)
WrapAt(bytes, width) ==
  IF bytes = <<>> THEN <<>>
  ELSE <<B2aBase64(Take(bytes, width))>> \o WrapAt(Drop(bytes, width), width)

InitCaller ==
  /\ pad_size \in PadSizes
  /\ pad_records = <<>>
  /\ scope = Wrapped
  /\ cons = NoCons
  /\ Quiet

\* the body is wrapped anew before main() reads it: a first line of first
\* bytes, then lines of width bytes, then the blank line
Rewrap(first, width) ==
  /\ pc = "dec"
  /\ cur.tamper = NoTamper
  /\ sess.format_level = "none"
  /\ \E bytes \in {BodyBytes(inp)} :
        /\ first < Len(bytes)
        /\ inp' = (<<B2aBase64(Take(bytes, first))>> \o WrapAt(Drop(bytes, first), width))
                  \o << <<>> >>
  /\ cur' = [cur EXCEPT !.tamper = [kind |-> "wrap", region |-> "none", at |-> first]]
  /\ UNCHANGED <<pad_size, disk, pad_records, sess, pc, randy, comp, decomp, out, msgs,
                 hist, disk0, nsess, scope, cons>>

\* byte k of the inner header (format version, flags) is changed by mask
\* before main() reads the body
TamperHeader(k, mask) ==
  /\ pc = "dec"
  /\ cur.tamper = NoTamper
  /\ sess.format_level = "none"
  /\ inp' = ChangeByte(inp, k, mask)
  /\ cur' = [cur EXCEPT !.tamper = [kind |-> "header", region |-> "header", at |-> k]]
  /\ UNCHANGED <<pad_size, disk, pad_records, sess, pc, randy, comp, decomp, out, msgs,
                 hist, disk0, nsess, scope, cons>>

\* prepare_for_encryption() or prepare_for_decryption() on a session that an
\* encoder or decoder has prepared; the exception ends the run
PrepareAgain(role) ==
  /\ pc \in {"enc", "dec"}
  /\ \E S \in {IF role = "enc" THEN PrepareForEncryption(sess, randy)
               ELSE PrepareForDecryption(sess)} :
        /\ sess' = S
        /\ pc' = IF S.err # "none" THEN "failed" ELSE pc
  /\ cur' = [cur EXCEPT !.tamper = [kind |-> "prepare", region |-> role, at |-> 0]]
  /\ UNCHANGED <<pad_size, disk, pad_records, randy, comp, decomp, inp, out, msgs, hist,
                 disk0, nsess, scope, cons>>

\* convert(string) on a session that has its offset and no role yet
ConvertUnprepared(string) ==
  /\ pc = "open"
  /\ \E S \in {Convert(sess, string, "internal")} :
        /\ sess' = S
        /\ pc' = IF S.err # "none" THEN "failed" ELSE pc
        /\ out' = IF S.err # "none" THEN out ELSE out \o S.ret
  /\ cur' = [cur EXCEPT !.tamper = [kind |-> "convert", region |-> "none", at |-> 0]]
  /\ UNCHANGED <<pad_size, disk, pad_records, randy, comp, decomp, inp, msgs, hist,
                 disk0, nsess, scope, cons>>

NextCaller ==
  \/ Next
  \/ \E first \in 1..MaxFirst, width \in WrapWidths : Rewrap(first, width)
  \/ \E k \in 1..2, mask \in HeaderMasks : TamperHeader(k, mask)
  \/ \E role \in {"enc", "dec"} : PrepareAgain(role)
  \/ \E string \in {<<65>>, <<65, 66>>} : ConvertUnprepared(string)

SpecCaller == InitCaller /\ [][NextCaller]_vars

(***************************************************************************)
(* Runs of main() that encrypt twice with one pad and one config area: the *)
(* second encryption is given an offset, and a plaintext below or of the   *)
(* size of a block of the compressor.                                      *)
(***************************************************************************)
Twice == [sessions |-> 2, encryptions |-> 2, plains |-> {<<65>>, <<65, 66>>},
          seeds |-> {0}, offsets |-> {32, 34, 109, 129}, tamper |-> FALSE,
          shorten |-> FALSE]

InitTwice ==
  /\ pad_size \in PadSizes
  /\ pad_records = <<>>
  /\ scope = Twice
  /\ cons = NoCons
  /\ Quiet

SpecTwice == InitTwice /\ [][Next]_vars

(***************************************************************************)
(* Messages of format level "original": no Format: header, the body is the *)
(* base64 of the compressed stream of plaintext XOR pad.  OneTime 1.x made *)
(* them; this program only reads them.  The pad-records file a run finds   *)
(* is empty or holds a record under the old identifier of the pad.         *)
(***************************************************************************)
OriginalOffsets == {0, 5, 32, 189}
OriginalFiles == {<<>>, [id \in {IdOriginal} |-> <<<<0, 3>>>>]}

InitOriginal ==
  /\ pad_size \in PadSizes
  /\ pad_records = <<>>
  /\ scope = Wide
  /\ cons = NoCons
  /\ disk \in [Areas -> OriginalFiles]
  /\ sess = NewPadSession(FALSE)
  /\ pc = "idle"
  /\ randy = NoRandy
  /\ comp = <<>>
  /\ decomp = NoDecomp
  /\ inp = <<>>
  /\ out = <<>>
  /\ cur = NoJob
  /\ msgs = {}
  /\ hist = <<>>
  /\ disk0 = <<>>
  /\ nsess = 0

\* main() is started to decrypt: PadSession(pad_file, config_area, ...)
NewSessionToDecrypt(area) ==
  /\ pc = "idle"
  /\ nsess < scope.sessions
  /\ \E parsed \in {ParsePadRecordsFile(disk[area])} :
     \E reg \in {Register(parsed.records)} :
     \E S \in {IF parsed.err # "none" THEN Raise(NewPadSession(FALSE), parsed.err)
               ELSE IF reg.err # "none" THEN Raise(NewPadSession(FALSE), reg.err)
               ELSE SetOffset(NewPadSession(FALSE), reg.next_offset)} :
        /\ sess' = S
        /\ pad_records' = IF parsed.err # "none" THEN <<>> ELSE reg.records
        /\ pc' = IF S.err # "none" THEN "failed" ELSE "open"
  /\ cur' = [NoJob EXCEPT !.area = area, !.role = "dec"]
  /\ disk0' = disk[area]
  /\ nsess' = nsess + 1
  /\ UNCHANGED <<pad_size, disk, randy, comp, decomp, inp, out, msgs, hist, scope, cons>>

\* main(), decrypting a message without Format: header, made for plain at
\* offset: the Offset: header sets the offset, then
\* SessionDecoder(pad_sess, "original")
NewSessionDecoderOriginal(plain, offset) ==
  /\ pc = "open"
  /\ cur.role = "dec"
  /\ \E o \in {SetOffset(sess, offset)} :
     \E S \in {IF o.err # "none" THEN o ELSE PrepareForDecryption(o)} :
        /\ sess' = S
        /\ pc' = IF S.err # "none" THEN "failed" ELSE "dec"
  /\ \E lines \in {EncodeString(Compressed(XorSeq(plain,
                                     [i \in 1..Len(plain) |-> PadByte(offset + i - 1)])))} :
        /\ cur' = [cur EXCEPT !.plain = plain, !.explicit = TRUE,
                              !.msg = [offset |-> offset, lines |-> lines,
                                       plain |-> plain, length |-> Len(plain),
                                       head |-> 0, tail |-> 0]]
        /\ inp' = Append(lines, <<>>)
  /\ decomp' = NoDecomp
  /\ out' = <<>>
  /\ UNCHANGED <<pad_size, disk, pad_records, randy, comp, msgs, hist, disk0, nsess,
                 scope, cons>>

\* SessionDecoder.decode(string), format level "original": decompress, then
\* convert
DecodeOriginal ==
  /\ pc = "dec"
  /\ inp # <<>>
  /\ \E d \in {BzDecompress(decomp, B64Decode(Head(inp)))} :
     \E v \in {IF d.err # "none" THEN sess ELSE Convert(sess, d.data, "original")} :
     \E e \in {IF d.err = "EOFError"
               THEN IF Head(inp) = <<>> THEN "none" ELSE "DecodingError"
               ELSE IF d.err # "none" THEN d.err
               ELSE v.err} :
        /\ sess' = Raise(v, e)
        /\ pc' = IF e # "none" THEN "failed" ELSE "dec"
        /\ decomp' = IF d.err # "none" \/ v.err # "none" THEN decomp
                     ELSE [d.d EXCEPT !.unused = decomp.unused \o d.d.unused]
        /\ out' = IF d.err # "none" \/ v.err # "none" THEN out ELSE out \o v.ret
  /\ inp' = Tail(inp)
  /\ UNCHANGED <<pad_size, disk, pad_records, randy, comp, cur, msgs, hist, disk0,
                 nsess, scope, cons>>

NextOriginal ==
  \/ \E area \in Areas : NewSessionToDecrypt(area)
  \/ \E plain \in Plaintexts, offset \in OriginalOffsets :
        NewSessionDecoderOriginal(plain, offset)
  \/ DecodeOriginal
  \/ DecoderFinish
  \/ EndSession

SpecOriginal == InitOriginal /\ [][NextOriginal]_vars

(***************************************************************************)
(* The fuzz lengths taken alone.  Either the conversion of the source      *)
(* bytes is applied to a pair of bytes, every pair of 8-bit values, or an  *)
(* encrypting session is prepared at an offset of the pad and a decrypting *)
(* session at the same offset is given the inner header it made: the six   *)
(* bytes before the head fuzz, or these and the head fuzz.                 *)
(***************************************************************************)
Bytes == 0..255
FuzzOffsets == 32..41
FuzzSeeds == {0, 1}

InitFuzz ==
  /\ pad_size \in PadSizes
  /\ pad_records = <<>>
  /\ scope = Wide
  /\ cons \in {NoCons} \cup {[NoCons EXCEPT !.x = <<b0, b1>>] : b0 \in Bytes, b1 \in Bytes}
  /\ Quiet

\* y = the length for the source bytes x
ConvertSourceBytes ==
  /\ cons.pass = 0
  /\ cons.x # <<>>
  /\ cons' = [cons EXCEPT !.pass = 1,
                          !.y = <<FuzzLength(cons.x, DefaultFuzzSourceModulo)>>]
  /\ UNCHANGED <<pad_size, disk, pad_records, sess, pc, randy, comp, decomp, inp, out,
                 cur, msgs, hist, disk0, nsess, scope>>

\* set_offset(offset); prepare_for_encryption(): y = the offset, the head
\* fuzz length and the tail fuzz length of the session
EncryptorDerives(offset, seed) ==
  /\ cons.pass = 0
  /\ cons.x = <<>>
  /\ \E S \in {PrepareForEncryption(SetOffset(NewPadSession(FALSE), offset),
                                      [seed |-> seed, count |-> 0])} :
        /\ sess' = S
        /\ cons' = [cons EXCEPT !.pass = 1, !.ok = (S.err = "none"),
                                !.y = IF S.err = "none"
                                      THEN <<S.offset, S.retn, S.tail_fuzz_length>>
                                      ELSE <<>>]
  /\ UNCHANGED <<pad_size, disk, pad_records, pc, randy, comp, decomp, inp, out,
                 cur, msgs, hist, disk0, nsess, scope>>

\* set_offset() to the encryptor's offset; prepare_for_decryption(); the
\* first convert() on the inner header, with its head fuzz or without:
\* z = the offset, the head fuzz length (fuzz bytes consumed and fuzz bytes
\* still expected) and the tail fuzz length of the session
DecryptorDerives(with_fuzz) ==
  /\ cons.pass = 1
  /\ cons.x = <<>>
  /\ cons.ok
  /\ \E string \in {IF with_fuzz THEN sess.head_buffer
                      ELSE Take(sess.head_buffer, 2 + (2 * DefaultFuzzSourceLength))} :
     \E S \in {HandleInnerHeader(
                 PrepareForDecryption(SetOffset(NewPadSession(FALSE), sess.offset)),
                 string)} :
        /\ sess' = S
        /\ cons' = [cons EXCEPT
                      !.pass = 2, !.ok2 = (S.err = "none"), !.allow2 = with_fuzz,
                      !.z = IF S.err # "none" THEN <<>>
                            ELSE <<S.offset,
                                   (S.length - (2 + (2 * DefaultFuzzSourceLength)
                                                  + DigestSourceLength)) + S.retn,
                                   S.tail_fuzz_length>>]
  /\ UNCHANGED <<pad_size, disk, pad_records, pc, randy, comp, decomp, inp, out,
                 cur, msgs, hist, disk0, nsess, scope>>

NextFuzz ==
  \/ ConvertSourceBytes
  \/ \E offset \in FuzzOffsets, seed \in FuzzSeeds : EncryptorDerives(offset, seed)
  \/ \E with_fuzz \in BOOLEAN : DecryptorDerives(with_fuzz)

SpecFuzz == InitFuzz /\ [][NextFuzz]_vars

(***************************************************************************)
(* _consolidate_used_ranges taken alone: every list of up to MaxRanges     *)
(* ranges, sorted or not, in either mode; the function is applied to the   *)
(* list and then to its own result.                                        *)
(***************************************************************************)
RangeLists ==
  UNION {[1..n -> (0..MaxOff) \X (0..MaxLen)] : n \in 0..MaxRanges}

InitCons ==
  /\ pad_size \in PadSizes
  /\ pad_records = <<>>
  /\ scope = Wide
  /\ cons \in {[NoCons EXCEPT !.x = x, !.allow = allow] :
                x \in RangeLists, allow \in BOOLEAN}
  /\ Quiet

\* y = _consolidate_used_ranges(x, allow)
ConsolidateOnce ==
  /\ cons.pass = 0
  /\ \E c \in {ConsolidateUsedRanges(cons.x, cons.allow)} :
        cons' = [cons EXCEPT !.pass = 1, !.ok = c.ok,
                             !.y = IF c.ok THEN c.used ELSE <<>>]
  /\ UNCHANGED <<pad_size, disk, pad_records, sess, pc, randy, comp, decomp, inp, out,
                 cur, msgs, hist, disk0, nsess, scope>>

\* z = _consolidate_used_ranges(y, allow2)
ConsolidateAgain(allow2) ==
  /\ cons.pass = 1
  /\ cons.ok
  /\ \E c \in {ConsolidateUsedRanges(cons.y, allow2)} :
        cons' = [cons EXCEPT !.pass = 2, !.ok2 = c.ok, !.allow2 = allow2,
                             !.z = IF c.ok THEN c.used ELSE <<>>]
  /\ UNCHANGED <<pad_size, disk, pad_records, sess, pc, randy, comp, decomp, inp, out,
                 cur, msgs, hist, disk0, nsess, scope>>

NextCons ==
  \/ ConsolidateOnce
  \/ \E allow2 \in BOOLEAN : ConsolidateAgain(allow2)

SpecCons == InitCons /\ [][NextCons]_vars

(***************************************************************************)
(* The store taken alone: calls of record_consumed, one after another, on  *)
(* the Configuration of a pad that register() has just entered.            *)
(***************************************************************************)
InitStore ==
  /\ pad_size \in PadSizes
  /\ pad_records = Register(<<>>).records
  /\ scope = Wide
  /\ cons = NoCons
  /\ Quiet

\* record_consumed(allow_reconsumption) for a session at offset, of length
StoreRecordConsumed(offset, length, allow_reconsumption) ==
  /\ nsess < MaxCalls
  /\ \E rc \in {RecordConsumed(pad_records, offset, length, allow_reconsumption)} :
        /\ pad_records' = rc.records
        /\ hist' = IF rc.err # "none" THEN hist
                   ELSE Append(hist, [role |-> IF allow_reconsumption THEN "dec"
                                               ELSE "enc",
                                      area |-> "none", auto |-> FALSE,
                                      allow |-> allow_reconsumption,
                                      offset |-> offset, length |-> length,
                                      before |-> pad_records, after |-> rc.records])
  /\ nsess' = nsess + 1
  /\ UNCHANGED <<pad_size, disk, sess, pc, randy, comp, decomp, inp, out, cur, msgs,
                 disk0, scope, cons>>

StoreOffsets == {32, 33, 35}
StoreLengths == {1, 2, 3}

NextStore ==
  \E offset \in StoreOffsets, length \in StoreLengths, allow_reconsumption \in BOOLEAN :
       StoreRecordConsumed(offset, length, allow_reconsumption)

SpecStore == InitStore /\ [][NextStore]_vars

(***************************************************************************)
(* save() step by step, in one config area: runs that open the store,      *)
(* record a range and save, and that may be interrupted between any two    *)
(* steps of save().  Here disk holds the three files of the area, each     *)
(* with its content (pad id -> used list) if it exists.                    *)
(***************************************************************************)
NoFile == [exists |-> FALSE, records |-> <<>>]

InitSave ==
  /\ pad_size \in PadSizes
  /\ disk = [pad_records_file |-> NoFile, tempfile |-> NoFile,
             intermediate_tempfile |-> NoFile]
  /\ pad_records = <<>>
  /\ sess = NewPadSession(FALSE)
  /\ pc = "idle"
  /\ randy = NoRandy
  /\ comp = <<>>
  /\ decomp = NoDecomp
  /\ inp = <<>>
  /\ out = <<>>
  /\ cur = NoJob
  /\ msgs = {}
  /\ hist = <<>>
  /\ disk0 = <<>>
  /\ nsess = 0
  /\ scope = Wide
  /\ cons = NoCons

\* Configuration.__init__ and register(): the pad-records file is created if
\* it is not there, then parsed
OpenStore ==
  /\ pc = "idle"
  /\ nsess < MaxCalls
  /\ \E live \in {IF disk.pad_records_file.exists THEN disk.pad_records_file
                   ELSE [exists |-> TRUE, records |-> <<>>]} :
     \E parsed \in {ParsePadRecordsFile(live.records)} :
     \E reg \in {Register(parsed.records)} :
        /\ disk' = [disk EXCEPT !.pad_records_file = live]
        /\ disk0' = live.records
        /\ pad_records' = IF parsed.err # "none" THEN <<>> ELSE reg.records
        /\ sess' = IF parsed.err # "none" THEN Raise(NewPadSession(FALSE), parsed.err)
                    ELSE Raise(NewPadSession(FALSE), reg.err)
        /\ pc' = IF parsed.err # "none" \/ reg.err # "none" THEN "failed" ELSE "opened"
  /\ nsess' = nsess + 1
  /\ UNCHANGED <<pad_size, randy, comp, decomp, inp, out, cur, msgs, hist, scope, cons>>

\* finish(): record_consumed() for a session at offset, of length
FinishRecordConsumed(offset, length, allow_reconsumption) ==
  /\ pc = "opened"
  /\ \E rc \in {RecordConsumed(pad_records, offset, length, allow_reconsumption)} :
        /\ pad_records' = rc.records
        /\ sess' = Raise(sess, rc.err)
        /\ pc' = IF rc.err # "none" THEN "failed" ELSE "save"
        /\ hist' = IF rc.err # "none" THEN hist
                   ELSE Append(hist, [role |-> IF allow_reconsumption THEN "dec"
                                               ELSE "enc",
                                      area |-> "none", auto |-> FALSE,
                                      allow |-> allow_reconsumption,
                                      offset |-> offset, length |-> length,
                                      before |-> pad_records, after |-> rc.records])
  /\ UNCHANGED <<pad_size, disk, randy, comp, decomp, inp, out, cur, msgs, disk0, nsess,
                 scope, cons>>

\* save(): the records are written to pad-records.tmp
SaveWriteTemp ==
  /\ pc = "save"
  /\ \E sv \in {SaveFile(pad_records)} :
        /\ disk' = [disk EXCEPT !.tempfile = [exists |-> TRUE, records |-> sv.file]]
        /\ sess' = Raise(sess, sv.err)
        /\ pc' = IF sv.err # "none" THEN "failed" ELSE "written"
  /\ UNCHANGED <<pad_size, pad_records, randy, comp, decomp, inp, out, cur, msgs, hist,
                 disk0, nsess, scope, cons>>

\* save(): a leftover pad-records.int stops it (the name ConfigurationError
\* is not bound in save(), so what is raised is NameError); otherwise
\* pad-records is renamed to pad-records.int
SaveRenameLive ==
  /\ pc = "written"
  /\ IF disk.intermediate_tempfile.exists
     THEN /\ sess' = Raise(sess, "NameError")
          /\ pc' = "failed"
          /\ disk' = disk
     ELSE /\ disk' = [disk EXCEPT !.intermediate_tempfile = disk.pad_records_file,
                                  !.pad_records_file = NoFile]
          /\ pc' = "moved"
          /\ sess' = sess
  /\ UNCHANGED <<pad_size, pad_records, randy, comp, decomp, inp, out, cur, msgs, hist,
                 disk0, nsess, scope, cons>>

\* save(): pad-records.tmp is renamed to pad-records
SaveRenameTemp ==
  /\ pc = "moved"
  /\ disk' = [disk EXCEPT !.pad_records_file = disk.tempfile, !.tempfile = NoFile]
  /\ pc' = "renamed"
  /\ UNCHANGED <<pad_size, pad_records, sess, randy, comp, decomp, inp, out, cur, msgs,
                 hist, disk0, nsess, scope, cons>>

\* save(): pad-records.int is removed
SaveRemoveIntermediate ==
  /\ pc = "renamed"
  /\ disk' = [disk EXCEPT !.intermediate_tempfile = NoFile]
  /\ pc' = "done"
  /\ UNCHANGED <<pad_size, pad_records, sess, randy, comp, decomp, inp, out, cur, msgs,
                 hist, disk0, nsess, scope, cons>>

\* the process ends, at the end of the run or interrupted where it stands;
\* what it held in memory is gone
EndRun ==
  /\ pc # "idle"
  /\ pc' = "idle"
  /\ pad_records' = <<>>
  /\ sess' = NewPadSession(FALSE)
  /\ disk0' = <<>>
  /\ UNCHANGED <<pad_size, disk, randy, comp, decomp, inp, out, cur, msgs, hist, nsess,
                 scope, cons>>

\* somebody sorts things out by hand: pad-records.int is removed
RemoveLeftover ==
  /\ pc = "idle"
  /\ disk.intermediate_tempfile.exists
  /\ disk' = [disk EXCEPT !.intermediate_tempfile = NoFile]
  /\ UNCHANGED <<pad_size, pad_records, sess, pc, randy, comp, decomp, inp, out, cur,
                 msgs, hist, disk0, nsess, scope, cons>>

NextSave ==
  \/ OpenStore
  \/ \E offset \in StoreOffsets, length \in StoreLengths, allow_reconsumption \in BOOLEAN :
       FinishRecordConsumed(offset, length, allow_reconsumption)
  \/ SaveWriteTemp
  \/ SaveRenameLive
  \/ SaveRenameTemp
  \/ SaveRemoveIntermediate
  \/ EndRun
  \/ RemoveLeftover

SpecSave == InitSave /\ [][NextSave]_vars

(***************************************************************************)
(* The Configuration of one process after another: PadSession.__init__     *)
(* builds it for a config area ("-" for none) and registers the pad,       *)
(* finish() records a range and saves unless no_trace.  Here disk tells    *)
(* whether the config area is a directory, and holds its pad-records file  *)
(* and the pad-records file of the old config area ~/.otp.                 *)
(***************************************************************************)
ConfigAreas == {"-", "dir"}
InitialUsed == {<<>>, <<<<0, 10>>>>, <<<<32, 159>>>>}
InitialFiles == UNION {[ids -> InitialUsed] : ids \in SUBSET {IdInternal, IdOriginal}}
ConfigRanges == {<<32, 77>>, <<100, 20>>, <<109, 82>>}

\* A faulty variant of Configuration.__init__: it takes "-" for a directory.
ConfigurationInitAnyPath(path, files) ==
  Only({IF area.pad_records_file.exists THEN area
        ELSE [area EXCEPT !.pad_records_file = [exists |-> TRUE, records |-> <<>>]]
    : area \in {IF files.config_area THEN files
                ELSE [files EXCEPT !.config_area = TRUE]}})

\* Configuration.__init__ up to the parse: the files afterwards
ConfigurationInit(path, files) ==
  IF path = "-" THEN files
  ELSE Only({IF area.pad_records_file.exists THEN area
             ELSE [area EXCEPT !.pad_records_file = [exists |-> TRUE, records |-> <<>>]]
         : area \in {IF files.config_area THEN files
                     ELSE IF files.old_pad_records_file.exists
                     THEN [config_area |-> TRUE,
                           pad_records_file |-> files.old_pad_records_file,
                           old_pad_records_file |-> NoFile]
                     ELSE [files EXCEPT !.config_area = TRUE]}})

\* _parse_pad_records_file() of a Configuration at path
ParseConfigured(path, files) ==
  IF path = "-" THEN [err |-> "none", records |-> <<>>]
  ELSE ParsePadRecordsFile(files.pad_records_file.records)

\* save() of a Configuration at path: the files afterwards
SaveConfigured(path, records, files) ==
  IF path = "-" THEN [err |-> "none", files |-> files]
  ELSE Only({[err |-> sv.err,
              files |-> IF sv.err # "none" THEN files
                        ELSE [files EXCEPT !.pad_records_file =
                                [exists |-> TRUE, records |-> sv.file]]]
         : sv \in {SaveFile(records)}})

InitConfig ==
  /\ pad_size \in PadSizes
  /\ disk \in {[config_area |-> FALSE, pad_records_file |-> NoFile,
                old_pad_records_file |-> old]
                 : old \in {NoFile} \cup {[exists |-> TRUE, records |-> f]
                                             : f \in InitialFiles}}
          \cup {[config_area |-> TRUE, pad_records_file |-> live,
                 old_pad_records_file |-> NoFile]
                 : live \in {NoFile} \cup {[exists |-> TRUE, records |-> f]
                                              : f \in InitialFiles}}
  /\ pad_records = <<>>
  /\ sess = NewPadSession(FALSE)
  /\ pc = "idle"
  /\ randy = NoRandy
  /\ comp = <<>>
  /\ decomp = NoDecomp
  /\ inp = <<>>
  /\ out = <<>>
  /\ cur = NoJob
  /\ msgs = {}
  /\ hist = <<>>
  /\ disk0 = <<>>
  /\ nsess = 0
  /\ scope = Wide
  /\ cons = NoCons

\* PadSession(pad_file, config_area, no_trace): Configuration.__init__, then
\* register(), which sets the offset
OpenConfiguration(path, no_trace) ==
  /\ pc = "idle"
  /\ nsess < scope.sessions
  /\ \E files \in {ConfigurationInit(path, disk)} :
     \E parsed \in {ParseConfigured(path, files)} :
     \E reg \in {Register(parsed.records)} :
     \E S \in {IF parsed.err # "none" THEN Raise(NewPadSession(no_trace), parsed.err)
               ELSE IF reg.err # "none" THEN Raise(NewPadSession(no_trace), reg.err)
               ELSE SetOffset(NewPadSession(no_trace), reg.next_offset)} :
        /\ disk' = files
        /\ disk0' = IF path = "-" THEN <<>> ELSE files.pad_records_file.records
        /\ pad_records' = IF parsed.err # "none" THEN <<>> ELSE reg.records
        /\ sess' = S
        /\ pc' = IF S.err # "none" THEN "failed" ELSE "opened"
  /\ cur' = [NoJob EXCEPT !.area = path]
  /\ nsess' = nsess + 1
  /\ UNCHANGED <<pad_size, randy, comp, decomp, inp, out, msgs, hist, scope, cons>>

\* the end of finish() for a session at offset, of length:
\* record_consumed(allow_reconsumption), then save() unless no_trace; the
\* Configuration may be handed a second range before the process ends
RecordAndSave(offset, length, allow_reconsumption) ==
  /\ pc \in {"opened", "done"}
  /\ \E rc \in {RecordConsumed(pad_records, offset, length, allow_reconsumption)} :
     \E sv \in {IF rc.err # "none" \/ sess.no_trace THEN [err |-> "none", files |-> disk]
                ELSE SaveConfigured(cur.area, rc.records, disk)} :
        /\ pad_records' = rc.records
        /\ disk' = sv.files
        /\ sess' = Raise(sess, IF rc.err # "none" THEN rc.err ELSE sv.err)
        /\ pc' = IF rc.err # "none" \/ sv.err # "none" THEN "failed"
                 ELSE IF pc = "opened" THEN "done" ELSE "again"
  /\ cur' = [cur EXCEPT !.role = IF allow_reconsumption THEN "dec" ELSE "enc",
                        !.msg = [NoMsg EXCEPT !.offset = offset, !.length = length]]
  /\ UNCHANGED <<pad_size, randy, comp, decomp, inp, out, msgs, hist, disk0, nsess,
                 scope, cons>>

NextConfig ==
  \/ \E path \in ConfigAreas, no_trace \in BOOLEAN : OpenConfiguration(path, no_trace)
  \/ \E r \in ConfigRanges, allow_reconsumption \in BOOLEAN :
       RecordAndSave(r[1], r[2], allow_reconsumption)
  \/ EndRun

SpecConfig == InitConfig /\ [][NextConfig]_vars

(***************************************************************************)
(* The pad-records document a process finds.  Here disk is the document:   *)
(* its form and the records written in it.  "records" is a document as     *)
(* save() writes it; "empty" a file of no bytes; "truncated" a document     *)
(* that breaks off, which is not well-formed XML; "bad_integer" a           *)
(* well-formed document in which the text of an <offset> is not a number.  *)
(***************************************************************************)
DocumentForms == {"records", "empty", "truncated", "bad_integer"}
DocumentRecords ==
  {<<>>, [id \in {IdInternal} |-> <<<<0, 40>>>>],
   [id \in {IdInternal} |-> <<<<32, 77>>, <<40, 5>>>>]}
FinishLengths == {1, 77, 82}

\* _parse_pad_records_file(): minidom.parse raises ExpatError on what is not
\* well-formed, and this alone is caught; int() raises ValueError
ParseDocument(doc) ==
  IF doc.form \in {"empty", "truncated"} THEN [err |-> "none", records |-> <<>>]
  ELSE IF doc.form = "bad_integer" THEN [err |-> "ValueError", records |-> <<>>]
  ELSE ParsePadRecordsFile(doc.records)

InitParse ==
  /\ pad_size \in PadSizes
  /\ pad_records = <<>>
  /\ scope = Wide
  /\ cons = NoCons
  /\ disk \in {[form |-> f, records |-> r] :
                 f \in DocumentForms, r \in DocumentRecords}
  /\ disk.form = "empty" => disk.records = <<>>
  /\ sess = NewPadSession(FALSE)
  /\ pc = "idle"
  /\ randy = NoRandy
  /\ comp = <<>>
  /\ decomp = NoDecomp
  /\ inp = <<>>
  /\ out = <<>>
  /\ cur = NoJob
  /\ msgs = {}
  /\ hist = <<>>
  /\ disk0 = <<>>
  /\ nsess = 0

\* PadSession(pad_file, config_area): Configuration parses the document,
\* register() enters the pad and sets the offset
OpenDocument ==
  /\ pc = "idle"
  /\ nsess < MaxCalls
  /\ \E parsed \in {ParseDocument(disk)} :
     \E reg \in {Register(parsed.records)} :
     \E S \in {IF parsed.err # "none" THEN Raise(NewPadSession(FALSE), parsed.err)
               ELSE IF reg.err # "none" THEN Raise(NewPadSession(FALSE), reg.err)
               ELSE SetOffset(NewPadSession(FALSE), reg.next_offset)} :
        /\ pad_records' = IF parsed.err # "none" THEN <<>> ELSE reg.records
        /\ sess' = S
        /\ pc' = IF S.err # "none" THEN "failed" ELSE "opened"
  /\ disk0' = disk
  /\ cur' = [NoJob EXCEPT !.area = "dir"]
  /\ nsess' = nsess + 1
  /\ UNCHANGED <<pad_size, disk, randy, comp, decomp, inp, out, msgs, hist, scope, cons>>

\* the end of finish() of a session that used length bytes from its offset:
\* record_consumed(allow_reconsumption), then save()
FinishOnDocument(length, allow_reconsumption) ==
  /\ pc = "opened"
  /\ sess.offset + length <= pad_size
  /\ \E rc \in {RecordConsumed(pad_records, sess.offset, length, allow_reconsumption)} :
     \E sv \in {IF rc.err # "none" THEN [err |-> "none", file |-> <<>>]
                ELSE SaveFile(rc.records)} :
        /\ pad_records' = rc.records
        /\ disk' = IF rc.err # "none" \/ sv.err # "none" THEN disk
                   ELSE [form |-> "records", records |-> sv.file]
        /\ sess' = Raise([sess EXCEPT !.length = length],
                         IF rc.err # "none" THEN rc.err ELSE sv.err)
        /\ pc' = IF rc.err # "none" \/ sv.err # "none" THEN "failed" ELSE "done"
  /\ cur' = [cur EXCEPT !.role = IF allow_reconsumption THEN "dec" ELSE "enc"]
  /\ UNCHANGED <<pad_size, randy, comp, decomp, inp, out, msgs, hist, disk0, nsess,
                 scope, cons>>

NextParse ==
  \/ OpenDocument
  \/ \E length \in FinishLengths, allow_reconsumption \in BOOLEAN :
       FinishOnDocument(length, allow_reconsumption)
  \/ EndRun

SpecParse == InitParse /\ [][NextParse]_vars

(***************************************************************************)
(* Two sessions on one pad and one pad-records file, each with its own     *)
(* Configuration.  Here disk is the one file, and sess, pad_records, pc    *)
(* and disk0 are pairs: the PadSession, the Configuration.pad_records, the *)
(* position and the file found, of the first and of the second session.    *)
(* hist holds the finishes in the order they happened.                     *)
(***************************************************************************)
Sessions == 1..2
OverlapFiles ==
  {<<>>, [id \in {IdInternal} |-> <<<<0, 40>>>>], [id \in {IdInternal} |-> <<<<32, 77>>>>]}
OverlapLengths == {73, 77, 82}

\* A faulty variant of save(): the ranges the file holds are kept beside
\* those of the Configuration.
SaveMerging(records, file) ==
  SaveFile([id \in DOMAIN records |->
              IF id \in DOMAIN file
              THEN ConsolidateUsedRanges(file[id] \o records[id], TRUE).used
              ELSE records[id]])

\* save(): the file is written from pad_records and renamed over the old
\* one, whose content is not read
SaveOver(records, file) == SaveFile(records)

InitOverlap ==
  /\ pad_size \in PadSizes
  /\ disk \in OverlapFiles
  /\ pad_records = [i \in Sessions |-> <<>>]
  /\ sess = [i \in Sessions |-> NewPadSession(FALSE)]
  /\ pc = [i \in Sessions |-> "idle"]
  /\ disk0 = [i \in Sessions |-> <<>>]
  /\ scope = Wide
  /\ cons = NoCons
  /\ randy = NoRandy
  /\ comp = <<>>
  /\ decomp = NoDecomp
  /\ inp = <<>>
  /\ out = <<>>
  /\ cur = NoJob
  /\ msgs = {}
  /\ hist = <<>>
  /\ nsess = 0

\* PadSession(pad_file, config_area) of session i: its Configuration parses
\* the file as it is now, register() enters the pad and sets the offset
ConstructSession(i) ==
  /\ pc[i] = "idle"
  /\ \E parsed \in {ParsePadRecordsFile(disk)} :
     \E reg \in {Register(parsed.records)} :
     \E S \in {IF parsed.err # "none" THEN Raise(NewPadSession(FALSE), parsed.err)
               ELSE IF reg.err # "none" THEN Raise(NewPadSession(FALSE), reg.err)
               ELSE SetOffset(NewPadSession(FALSE), reg.next_offset)} :
        /\ pad_records' = [pad_records EXCEPT ![i] =
                             IF parsed.err # "none" THEN <<>> ELSE reg.records]
        /\ sess' = [sess EXCEPT ![i] = S]
        /\ pc' = [pc EXCEPT ![i] = IF S.err # "none" THEN "failed" ELSE "opened"]
  /\ disk0' = [disk0 EXCEPT ![i] = disk]
  /\ nsess' = nsess + 1
  /\ UNCHANGED <<pad_size, disk, randy, comp, decomp, inp, out, cur, msgs, hist,
                 scope, cons>>

\* the end of finish() of session i, which encrypted and used length bytes
\* from its offset: record_consumed(False) on its own pad_records, then save()
FinishSession(i, length) ==
  /\ pc[i] = "opened"
  /\ sess[i].offset + length <= pad_size
  /\ \E rc \in {RecordConsumed(pad_records[i], sess[i].offset, length, FALSE)} :
     \E sv \in {IF rc.err # "none" THEN [err |-> "none", file |-> <<>>]
                ELSE SaveOver(rc.records, disk)} :
     \E e \in {IF rc.err # "none" THEN rc.err ELSE sv.err} :
        /\ pad_records' = [pad_records EXCEPT ![i] = rc.records]
        /\ disk' = IF e # "none" THEN disk ELSE sv.file
        /\ sess' = [sess EXCEPT ![i] = Raise([@ EXCEPT !.length = length], e)]
        /\ pc' = [pc EXCEPT ![i] = IF e # "none" THEN "failed" ELSE "done"]
        /\ hist' = Append(hist, [who |-> i, offset |-> sess[i].offset,
                                 length |-> length, err |-> e,
                                 other |-> pc[3 - i], before |-> disk])
  /\ UNCHANGED <<pad_size, randy, comp, decomp, inp, out, cur, msgs, disk0, nsess,
                 scope, cons>>

NextOverlap ==
  \/ \E i \in Sessions : ConstructSession(i)
  \/ \E i \in Sessions, length \in OverlapLengths : FinishSession(i, length)

SpecOverlap == InitOverlap /\ [][NextOverlap]_vars

(***************************************************************************)
(* Vocabulary of the properties.                                           *)
(***************************************************************************)
\* the pad positions a list of ranges marks as used
CoverSet(used) ==
  UNION {used[i][1]..(used[i][1] + used[i][2] - 1) : i \in DOMAIN used}

Covered(used, offset, length) == (offset..(offset + length - 1)) \subseteq CoverSet(used)

\* sorted by offset, no two ranges overlapping or touching
SortedApart(used) ==
  \A i \in 1..(Len(used) - 1) : used[i][1] + used[i][2] < used[i + 1][1]

RECURSIVE TotalUsed(_, _)
TotalUsed(used, n) == IF n = 0 THEN 0 ELSE used[n][2] + TotalUsed(used, n - 1)

\* the used list a pad-records file or a Configuration holds for the pad
UsedIn(records) == IF IdInternal \in DOMAIN records THEN records[IdInternal] ELSE <<>>

\* the running session starts at or inside a range its store had recorded
StartsInRecorded ==
  /\ sess.offset # None
  /\ \E i \in DOMAIN UsedIn(disk0) :
       /\ UsedIn(disk0)[i][1] <= sess.offset
       /\ sess.offset < UsedIn(disk0)[i][1] + UsedIn(disk0)[i][2]

\* exceptions of a pad too short for the session
PadExhausted == {"PadShort", "IndexError", "TypeError"}

(***************************************************************************)
(* Properties of _consolidate_used_ranges (SpecCons).                      *)
(***************************************************************************)
\* C8: consolidation is idempotent: when _consolidate_used_ranges succeeds on
\* a list x, applying it to its result y, in either mode, succeeds and
\* returns y again.
C8_ConsolidateIdempotent ==
  cons.pass = 2 => (cons.ok2 /\ cons.z = cons.y)

\* a list out of order with overlaps was consolidated twice, into two ranges
C8_Witness ==
  /\ cons.pass = 2
  /\ cons.allow
  /\ Len(cons.x) = 3
  /\ Len(cons.y) = 2
  /\ ~SortedApart(cons.x)
  /\ \E i \in 1..2 : cons.x[i][1] > cons.x[i + 1][1]

\* C9: consolidation preserves cover: when _consolidate_used_ranges succeeds
\* on a list x (sorted or not, touching or overlapping), its result marks
\* exactly the pad positions that x marks.
C9_ConsolidatePreservesCover ==
  (cons.pass >= 1 /\ cons.ok) => CoverSet(cons.y) = CoverSet(cons.x)

\* the case C9 speaks of: an unsorted list was consolidated
C9_Witness ==
  /\ cons.pass = 1
  /\ cons.ok
  /\ Len(cons.x) = 2
  /\ cons.x[1][1] > cons.x[2][1] + cons.x[2][2]
  /\ cons.x[2][2] > 0

(***************************************************************************)
(* Properties of record_consumed (SpecStore).                              *)
(***************************************************************************)
\* C6: over the successful calls of record_consumed on a pad, in either mode
\* and with ranges in any order, the total recorded used length and the next
\* offset never decrease from one successful call to the next.
C6_UsedNeverShrinks ==
  \A j \in DOMAIN hist :
    LET prev == IF j = 1 THEN Register(<<>>).records[IdInternal]
                ELSE hist[j - 1].after[IdInternal]
        now == hist[j].after[IdInternal]
    IN /\ TotalUsed(now, Len(now)) >= TotalUsed(prev, Len(prev))
       /\ GetNextOffset(now) >= GetNextOffset(prev)

\* of three calls one failed, and a decrypting call recorded a range that
\* starts below the one recorded before it
C6_Witness ==
  /\ Len(hist) = 2
  /\ nsess = 3
  /\ hist[2].role = "dec"
  /\ hist[2].offset < hist[1].offset

\* C12: in every state of the store that record_consumed has left
\* consolidated (and for a pad that has no range yet, freshly registered or
\* read from a record without <used>), _get_next_offset returns the end of the last range or 32,
\* whichever is larger: it is never less than 32 and never less than the end
\* of any recorded range, so a gap before the last range is never returned.
C12_NextOffsetIsLastEnd ==
  \A used \in {Register(<<>>).records[IdInternal],
               ParsePadRecordsFile([id \in {IdInternal} |-> <<>>]).records[IdInternal]}
              \cup {hist[j].after[IdInternal] : j \in DOMAIN hist} :
    /\ GetNextOffset(used) >= IdSourceLength
    /\ used # <<>> =>
         GetNextOffset(used) =
           Max(IdSourceLength, used[Len(used)][1] + used[Len(used)][2])
    /\ \A i \in DOMAIN used : GetNextOffset(used) >= used[i][1] + used[i][2]

\* the store holds two ranges with a gap between them
C12_Witness ==
  /\ hist # <<>>
  /\ Len(hist[Len(hist)].after[IdInternal]) = 2
  /\ pad_records = hist[Len(hist)].after
  /\ GetNextOffset(pad_records[IdInternal]) > pad_records[IdInternal][1][1] + 3

(***************************************************************************)
(* Properties of the runs of main() (Spec).                                *)
(***************************************************************************)
\* C1: round trip: once the PadSession of a decrypting run exists, decoding
\* the lines an encryption wrote (with the same pad, from the offset of the
\* message) raises no error, returns exactly the plaintext that was
\* encrypted, and ends with the length the encrypting session had; pads
\* whose head or tail fuzz is empty included.
C1_RoundTrip ==
  /\ (pc = "failed" /\ cur.role = "dec") => cur.msg = NoMsg
  /\ (pc = "done" /\ cur.role = "dec") =>
       /\ out = cur.msg.plain
       /\ sess.err = "none"
       /\ sess.offset = cur.msg.offset
       /\ sess.length = cur.msg.length

\* a two-byte plaintext came back from a message whose tail fuzz is empty
\* and whose head fuzz spans lines of the armor (offset 35)
C1_Witness ==
  /\ pc = "done"
  /\ cur.role = "dec"
  /\ Len(out) = 2
  /\ out = cur.msg.plain
  /\ sess.offset = 35
  /\ sess.tail_fuzz_length = 0
  /\ sess.length > IdSourceLength + 6 + DigestLength + Len(BzFlush(out))

\* C2: no pad re-use for encryption: of the sessions that finished
\* successfully against one store, no encrypting session consumed a pad byte
\* in the range of an earlier session, encrypting or decrypting, whichever
\* way the offsets were chosen.
C2_NoReuseForEncryption ==
  \A i, j \in DOMAIN hist :
    (i < j /\ hist[j].role = "enc" /\ hist[i].area = hist[j].area) =>
      \/ hist[j].offset >= hist[i].offset + hist[i].length
      \/ hist[j].offset + hist[j].length <= hist[i].offset

\* an encryption finished in a store that had recorded a decryption before
C2_Witness ==
  /\ Len(hist) = 3
  /\ hist[2].role = "dec"
  /\ hist[3].role = "enc"
  /\ hist[2].area = hist[3].area
  /\ pc = "done"

\* C3: an encryption whose start offset lies at or inside a range the store
\* has recorded never succeeds and leaves the pad-records file as it was;
\* unless the pad runs out before finish() reaches the store, the error is
\* ConfigurationError.
C3_OverlapRejected ==
  (cur.role = "enc" /\ pc \in {"done", "failed"} /\ StartsInRecorded) =>
    /\ pc = "failed"
    /\ disk[cur.area] = disk0
    /\ sess.err \in {"ConfigurationError"} \cup PadExhausted
    /\ sess.err # "ConfigurationError" =>
         (sess.pos >= pad_size \/ sess.offset + DigestSourceLength >= pad_size)

\* an encryption at the offset of an earlier one plus one was rejected
C3_Witness ==
  /\ pc = "failed"
  /\ cur.role = "enc"
  /\ StartsInRecorded
  /\ sess.err = "ConfigurationError"
  /\ Len(hist) = 1
  /\ hist[1].area = cur.area
  /\ sess.offset = hist[1].offset + 1

\* C4: re-decrypting stays legal: when the store of a decrypting run has the
\* range of a message recorded, the run does not fail, and a finished run
\* returns the plaintext of its message.
C4_RedecryptStaysLegal ==
  (cur.role = "dec" /\ \E m \in msgs : Covered(UsedIn(disk0), m.offset, m.length)) =>
    /\ pc # "failed"
    /\ pc = "done" => out = cur.msg.plain

\* C5: decrypt bookkeeping is idempotent: a successful decryption of a
\* message whose range the store had already recorded leaves the pad-records
\* file as it was.
C5_DecryptTwiceSameStore ==
  (pc = "done" /\ cur.role = "dec"
     /\ Covered(UsedIn(disk0), sess.offset, sess.length)) =>
    disk[cur.area] = disk0

\* the same message was decrypted a second time in the same store
C5_Witness ==
  /\ pc = "done"
  /\ cur.role = "dec"
  /\ Covered(UsedIn(disk0), sess.offset, sess.length)
  /\ Len(hist) = 3
  /\ hist[2].role = "dec"
  /\ hist[2].area = cur.area
  /\ hist[2].offset = sess.offset

\* C7: decryption records its range as used: after a decryption has finished
\* successfully, the pad-records file covers every byte of the range of the
\* message, wherever that range lies among the ranges recorded before.
C7_DecryptRecordsRange ==
  (pc = "done" /\ cur.role = "dec") =>
    Covered(UsedIn(disk[cur.area]), sess.offset, sess.length)

\* C13: sequential encryptions chain: while every session that has finished
\* is an encryption at the offset the store proposed, in one config area with
\* a pad-records file that was empty at first, each session starts where the
\* one before it ended (the first at 32), the file holds a single range, and
\* the next offset is the first offset plus the lengths of all the sessions.
C13_EncryptionsChain ==
  \A n \in DOMAIN hist :
    (\A i \in 1..n : /\ hist[i].role = "enc"
                     /\ hist[i].auto
                     /\ hist[i].area = hist[1].area) =>
      /\ hist[n].offset = IF n = 1 THEN IdSourceLength
                          ELSE hist[n - 1].offset + hist[n - 1].length
      /\ UsedIn(hist[n].after) =
           << <<hist[1].offset,
                SumSeq([i \in 1..n |-> hist[i].length], n)>> >>
      /\ GetNextOffset(UsedIn(hist[n].after)) =
           hist[1].offset + SumSeq([i \in 1..n |-> hist[i].length], n)

\* three encryptions in a row, the last ending where the pad ends
C13_Witness ==
  /\ Len(hist) = 3
  /\ \A i \in 1..3 : hist[i].role = "enc" /\ hist[i].auto /\ hist[i].area = "alice"
  /\ hist[3].offset + hist[3].length = pad_size
  /\ pc = "done"

\* C18: the pad-records files change only in a finish() that completes
\* without error: a step that opens a session, converts, fails (with
\* DigestMismatch, FuzzMismatch, ConfigurationError or any other error) or
\* drops the session leaves every pad-records file as it was, and a step
\* that fails or drops leaves the plaintext already written in place.
C18_SavedOnlyOnCleanFinish ==
  [][/\ pc' # "done" => disk' = disk
     /\ (pc \in {"enc", "dec"} /\ pc' \in {"failed", "dropped"}) => out' = out]_vars

\* a decryption wrote its plaintext and then failed in finish() on the digest
C18_Witness ==
  /\ pc = "failed"
  /\ cur.role = "dec"
  /\ sess.err = "DigestMismatch"
  /\ out = cur.msg.plain
  /\ out # <<>>
  /\ disk[cur.area] = disk0

\* C10: in every state of the store, in memory (a failed record_consumed
\* included) and as saved, the used list of the pad is sorted by offset and
\* no two of its ranges overlap or touch.
C10_StoreSortedApart ==
  /\ \A a \in Areas : SortedApart(UsedIn(disk[a]))
  /\ SortedApart(UsedIn(pad_records))

(***************************************************************************)
(* Properties of runs on changed input or a shorter pad (SpecTamper).      *)
(***************************************************************************)
\* errors that SessionDecoder.decode() raises on input it cannot decode
DecodeErrors == {"IOError", "DecodingError", "InnerFormat"}

\* C11: a session that has finished successfully, encrypting or decrypting,
\* has recorded a range that ends within the pad file it was run with.
C11_RangeWithinPad ==
  pc = "done" => sess.offset + sess.length <= pad_size

\* C14: tamper detection: when one byte of the head fuzz, the body or the
\* digest of a message has been changed, decryption never finishes
\* successfully: it ends with DigestMismatch or an error of decoding.
C14_TamperDetected ==
  (cur.tamper.kind = "byte" /\ cur.tamper.region \in {"head", "body", "digest"}
     /\ pc \in {"done", "failed"}) =>
    /\ pc = "failed"
    /\ sess.err \in {"DigestMismatch"} \cup DecodeErrors

\* C15: the tail fuzz is not authenticated: when one byte or every byte of
\* the tail fuzz of a message has been changed, decryption ends as it does for the message as
\* written: without error, with the same plaintext, the same length of the
\* session and the same ranges saved.
C15_TailFuzzUnchecked ==
  (cur.tamper.kind \in {"byte", "bytes"} /\ cur.tamper.region = "tail"
     /\ pc \in {"done", "failed"}) =>
    /\ pc = "done"
    /\ sess.err = "none"
    /\ out = cur.msg.plain
    /\ sess.offset = cur.msg.offset
    /\ sess.length = cur.msg.length
    /\ disk[cur.area] =
         SaveFile(RecordConsumed(Register(ParsePadRecordsFile(disk0).records).records,
                                 cur.msg.offset, cur.msg.length, TRUE).records).file

\* a message with five bytes of tail fuzz, all of them changed, was decrypted
C15_Witness ==
  /\ pc = "done"
  /\ cur.tamper.kind = "bytes"
  /\ cur.tamper.region = "tail"
  /\ cur.msg.tail = 5
  /\ out = <<65, 66>>

\* C16: when one byte of the body of a message has been changed, decryption
\* ends with an error of decoding or with DigestMismatch, and what it has
\* written is not the plaintext of the message.
C16_BodyTamperFails ==
  (cur.tamper.kind = "byte" /\ cur.tamper.region = "body"
     /\ pc \in {"done", "failed"}) =>
    /\ pc = "failed"
    /\ sess.err \in {"DigestMismatch"} \cup DecodeErrors
    /\ out # cur.msg.plain

\* C17: the length of the tail fuzz is enforced: when bytes have been cut
\* from or added to the end of a message and decoding reaches finish(),
\* finish() raises FuzzMismatch.
C17_TailLengthEnforced ==
  (cur.tamper.kind \in {"cut", "add"} /\ pc \in {"done", "failed"}) =>
    /\ pc = "failed"
    /\ sess.err \in {"FuzzMismatch"} \cup DecodeErrors

(***************************************************************************)
(* Properties of save() (SpecSave).                                        *)
(***************************************************************************)
\* C19: save is atomic with respect to interruption: whenever the store is
\* opened after a run that had recorded a range, its records are either
\* those the run started from or those the run was saving, whether save()
\* completed, was refused, or was interrupted after any of its steps.
C19_SaveAtomic ==
  (pc = "opened" /\ hist # <<>>) =>
    UsedIn(pad_records) \in {UsedIn(hist[Len(hist)].before),
                             UsedIn(hist[Len(hist)].after)}

\* C20: when save() has written pad-records.tmp and finds pad-records.int,
\* it raises ConfigurationError and leaves pad-records and pad-records.int
\* as they are, in every run until pad-records.int is removed.
C20_LeftoverRefused ==
  [][(pc = "written" /\ disk.intermediate_tempfile.exists /\ pc' # "idle") =>
       /\ pc' = "failed"
       /\ sess'.err = "ConfigurationError"
       /\ disk'.pad_records_file = disk.pad_records_file
       /\ disk'.intermediate_tempfile = disk.intermediate_tempfile]_vars

(***************************************************************************)
(* Properties of the Configuration of a process (SpecConfig).              *)
(***************************************************************************)
\* the range (offset, length) shares a pad position with the list of ranges
Overlaps(used, offset, length) ==
  (offset..(offset + length - 1)) \cap CoverSet(used) # {}

\* C21: with config area "-" the store lives in memory only.  No step of such
\* a process (building the Configuration, register, record_consumed, save)
\* changes a file or a directory; whatever the files hold, the store starts
\* with the fresh record of the pad alone and the offset at IdSourceLength;
\* every range handed over is recorded as record_consumed records it, and one
\* that overlaps what the process recorded before is refused with
\* ConfigurationError when reconsumption is not allowed.
C21_InMemoryStore ==
  [][(cur'.area = "-" /\ pc' # "idle") =>
       /\ disk' = disk
       /\ pc = "idle" =>
            /\ pad_records' = [id \in {IdInternal} |-> <<>>]
            /\ sess'.err = "none"
            /\ sess'.offset = IdSourceLength
       /\ pc # "idle" =>
            /\ pad_records' = RecordConsumed(pad_records, cur'.msg.offset,
                                             cur'.msg.length, cur'.role = "dec").records
            /\ (cur'.role = "enc" /\ Overlaps(UsedIn(pad_records), cur'.msg.offset,
                                              cur'.msg.length))
                 => (pc' = "failed" /\ sess'.err = "ConfigurationError")]_vars

\* a process without config area was refused a range that overlaps the one it
\* had recorded, beside a pad-records file that holds other ranges
C21_Witness ==
  /\ cur.area = "-"
  /\ pc = "failed"
  /\ sess.err = "ConfigurationError"
  /\ cur.msg.offset = 100
  /\ UsedIn(pad_records) = <<<<32, 77>>, <<100, 20>>>>
  /\ disk.pad_records_file.exists
  /\ UsedIn(disk.pad_records_file.records) = <<<<32, 159>>>>

\* C22: a session with no_trace changes nothing in the config area, from its
\* construction to finish(): the directory and the files stay as they were,
\* while finish() records the range in memory and refuses an overlap.
C22_NoTraceLeavesNoTrace ==
  [][(sess'.no_trace /\ pc' # "idle") =>
       /\ disk' = disk
       /\ pc # "idle" =>
            /\ pad_records' = RecordConsumed(pad_records, cur'.msg.offset,
                                             cur'.msg.length, cur'.role = "dec").records
            /\ (cur'.role = "enc" /\ Overlaps(UsedIn(pad_records), cur'.msg.offset,
                                              cur'.msg.length))
                 => (pc' = "failed" /\ sess'.err = "ConfigurationError")]_vars

\* the store that register() found: the pad-records file as parsed
StoreFound == ParsePadRecordsFile(disk0).records

\* PadSession.__init__ has returned or raised, finish() has not been called
JustOpened == pc \in {"opened", "failed"} /\ cur.msg = NoMsg

\* what register() leaves in the store when it does not find both identifiers
Registered ==
  /\ IdInternal \in DOMAIN pad_records
  /\ IdOriginal \notin DOMAIN pad_records
  /\ pad_records[IdInternal] =
       IF IdInternal \in DOMAIN StoreFound THEN StoreFound[IdInternal]
       ELSE IF IdOriginal \in DOMAIN StoreFound THEN StoreFound[IdOriginal]
       ELSE <<>>
  /\ \A id \in DOMAIN pad_records \cup DOMAIN StoreFound :
       id \notin {IdInternal, IdOriginal}
         => (id \in DOMAIN pad_records /\ id \in DOMAIN StoreFound
             /\ pad_records[id] = StoreFound[id])

C24_PadShortReported ==
  /\ (pc = "failed" /\ sess.err \in PadExhausted)
       => (sess.err = "PadShort" /\ disk[cur.area] = disk0)
  /\ pc = "done" => sess.offset + sess.length <= pad_size

\* C26 as stated: finish() hands allow_reconsumption = TRUE to
\* record_consumed() when the session encrypts and FALSE when it decrypts.
C26_AllowWhenEncrypting ==
  \A i \in DOMAIN hist : hist[i].allow = (hist[i].role = "enc")

\* C26: finish() hands allow_reconsumption = FALSE to record_consumed() when
\* the session encrypts and TRUE when it decrypts; so a decryption that
\* starts within a recorded range finishes, and no decryption is refused by
\* the store.
C26_AllowWhenDecrypting ==
  /\ \A i \in DOMAIN hist : hist[i].allow = (hist[i].role = "dec")
  /\ (pc = "failed" /\ sess.err = "ConfigurationError") => cur.role = "enc"

\* a message was decrypted a second time in the same config area
C26_Witness ==
  /\ pc = "done"
  /\ cur.role = "dec"
  /\ StartsInRecorded
  /\ Len(hist) = 3
  /\ hist[2].role = "dec" /\ hist[2].area = cur.area /\ hist[2].offset = sess.offset
  /\ hist[3].allow

(***************************************************************************)
(* Properties of other uses of the session (SpecCaller).                   *)
(***************************************************************************)
\* C25: decryption does not depend on how the body is cut into calls of
\* convert(): a message wrapped anew, whatever the length of its first line,
\* decrypts to the plaintext with the length of the encrypting session, and
\* gives no output while head fuzz is still to come.
C25_ChunkingIndependent ==
  cur.tamper.kind = "wrap" =>
    /\ pc \in {"done", "failed"}
         => (pc = "done" /\ out = cur.msg.plain /\ sess.length = cur.msg.length)
    /\ pc = "dec" => sess.err = "none"
    /\ sess.fuzz_remaining > 0 => out = <<>>

\* C27: the role of a session is set once.  prepare_for_encryption() or
\* prepare_for_decryption() on a session that has a role raises OverPrepared
\* and leaves the session as it was: same role, same place in the pad, same
\* length.  convert() at format level internal on a session without role
\* raises PadSessionUninitialized, returns nothing and reads no pad.
C27_RoleSetOnce ==
  [][/\ (cur'.tamper.kind = "prepare" /\ cur.tamper.kind # "prepare")
          => (sess' = [sess EXCEPT !.err = "OverPrepared"] /\ pc' = "failed")
     /\ (cur'.tamper.kind = "convert" /\ cur.tamper.kind # "convert")
          => /\ sess'.err = "PadSessionUninitialized"
             /\ pc' = "failed"
             /\ sess'.ret = <<>>
             /\ out' = out
             /\ sess'.pos = sess.pos
             /\ sess'.length = sess.length
             /\ ~sess'.encrypting /\ ~sess'.decrypting]_vars

\* an encrypting session that had converted part of its input was asked to
\* prepare for decryption
C27_Witness ==
  /\ pc = "failed"
  /\ cur.tamper.kind = "prepare"
  /\ cur.tamper.region = "dec"
  /\ sess.err = "OverPrepared"
  /\ sess.encrypting /\ ~sess.decrypting
  /\ sess.begun
  /\ sess.length > 2 + (2 * DefaultFuzzSourceLength) + DigestSourceLength

\* C28: the inner header is validated when decryption starts.  When the
\* format version byte of a message does not unmask to 0, or its flags byte
\* unmasks to a value with any bit set, the first convert() raises
\* InnerFormat: no plaintext is output and the pad-records file stays as it
\* was.
C28_InnerHeaderValidated ==
  (cur.tamper.kind = "header" /\ sess.format_level # "none") =>
    /\ pc = "failed"
    /\ sess.err = "InnerFormat"
    /\ ~sess.begun
    /\ out = <<>>
    /\ disk[cur.area] = disk0

\* the flags byte of a message with head fuzz was changed; the decoder read
\* the header and the fuzz lengths from the pad before it refused
C28_Witness ==
  /\ pc = "failed"
  /\ cur.tamper.kind = "header"
  /\ cur.tamper.at = 2
  /\ sess.err = "InnerFormat"
  /\ cur.msg.head = 15
  /\ sess.length >= 2 + (2 * DefaultFuzzSourceLength)
  /\ out = <<>>

(***************************************************************************)
(* Properties of the fuzz lengths (SpecFuzz).                              *)
(***************************************************************************)
\* C29: the fuzz length for the source bytes b0, b1 is (b0 * b1) mod 512, a
\* number in 0..511, for every pair of 8-bit values; and the decrypting
\* session at the offset of the encrypting session derives the head fuzz
\* length and the tail fuzz length that the encrypting session derived.
C29_FuzzLengths ==
  /\ (cons.x # <<>> /\ cons.pass = 1) =>
        /\ cons.y = <<(cons.x[1] * cons.x[2]) % 512>>
        /\ cons.y[1] \in 0..511
  /\ (cons.x = <<>> /\ cons.pass >= 1) => cons.ok
  /\ (cons.x = <<>> /\ cons.pass = 2) =>
        /\ cons.ok2
        /\ cons.z = cons.y
        /\ sess.decrypting

\* the pad bytes 171 and 3 are the source of the head fuzz length at offset
\* 34: their product is 513, and both sessions derived the length 1; the
\* decrypting session had only the six bytes before the fuzz
C29_Witness ==
  /\ cons.pass = 2
  /\ cons.x = <<>>
  /\ ~cons.allow2
  /\ PadRead(36, 2) = <<171, 3>>
  /\ cons.y = <<34, 1, 5>>
  /\ cons.z = <<34, 1, 5>>

(***************************************************************************)
(* Properties of the sessions of main() (Spec): pad accounting.            *)
(***************************************************************************)
\* C30: after a successful finish() of an encrypting session, the length of
\* the session is 1 + 1 + 2 + 2 + 32 + H + C + 32 + T, where H and T are the
\* fuzz lengths that the pad gives at the session's offset and C is the
\* number of bytes of the compressed plaintext; the range handed to the
\* store is the session's offset with this length; and the message has one
\* byte for each of these pad bytes but the 32 that seed the digest.
C30_PadAccounting ==
  (pc = "done" /\ cur.role = "enc") =>
    /\ sess.length = 1 + 1 + 2 + 2 + 32
                      + FuzzLength(PadRead(sess.offset + 2, 2), 512)
                      + Len(Compressed(cur.plain))
                      + 32
                      + FuzzLength(PadRead(sess.offset + 4, 2), 512)
    /\ hist # <<>>
    /\ hist[Len(hist)].role = "enc"
    /\ hist[Len(hist)].offset = sess.offset
    /\ hist[Len(hist)].length = sess.length
    /\ sess.pos = sess.offset + sess.length
    /\ Len(BodyBytes(out)) = sess.length - 32

\* a one-byte plaintext was encrypted at offset 109 with 1 byte of head fuzz
\* and 5 of tail fuzz: 38 + 1 + 6 + 32 + 5 = 82 pad bytes, to the end of a
\* pad of 191
C30_Witness ==
  /\ pc = "done"
  /\ cur.role = "enc"
  /\ Len(cur.plain) = 1
  /\ Len(Compressed(cur.plain)) = 6
  /\ sess.offset = 109
  /\ sess.length = 82
  /\ pad_size = 191
  /\ hist[Len(hist)].offset = 109
  /\ hist[Len(hist)].length = 82

\* C31: the body of an encrypted message (before base64) has at least
\* 38 + 32 + H + T + C bytes, C the length of the compressed plaintext: every
\* field of the inner header, the 32 bytes that seed the hash among them, is
\* in the body, so the body has as many bytes as the session took from the
\* pad.
C31_BodyHoldsHashSeed ==
  (pc = "done" /\ cur.role = "enc") =>
    /\ Len(BodyBytes(out)) >= 38 + 32
                               + FuzzLength(PadRead(sess.offset + 2, 2), 512)
                               + FuzzLength(PadRead(sess.offset + 4, 2), 512)
                               + Len(Compressed(cur.plain))
    /\ Len(BodyBytes(out)) = sess.length

(***************************************************************************)
(* Properties of sessions on changed messages and pads (SpecTamper),       *)
(* continued.                                                              *)
(***************************************************************************)
\* C32: within a session the pad is read strictly forward.  After every
\* step of a session that does not raise, the read position of the pad file
\* is offset() + length(), and length() does not decrease from one step of a
\* session to the next.
C32_PadReadForward ==
  [][(sess'.err = "none" /\ sess'.offset # None) =>
       /\ sess'.pos = sess'.offset + sess'.length
       /\ (pc \in {"enc", "dec"} /\ pc' \in {"enc", "dec", "done"})
            => sess'.length >= sess.length]_vars

(***************************************************************************)
(* Properties of other uses of the session (SpecCaller), continued.        *)
(***************************************************************************)
IsPrefix(s, t) == Len(s) <= Len(t) /\ s = SubSeq(t, 1, Len(s))

\* what the encoder of message m fed to its hash: the 32 pad bytes after the
\* six bytes of the header, the head fuzz before masking, the plaintext
HashInput(m) ==
  PadRead(m.offset + 2 + (2 * DefaultFuzzSourceLength), DigestSourceLength)
  \o XorSeq(SubSeq(BodyBytes(m.lines), 7, 6 + m.head),
            PadRead(m.offset + 2 + (2 * DefaultFuzzSourceLength) + DigestSourceLength,
                    m.head))
  \o m.plain

\* C33: in both roles the hash is given the 32 seed bytes of the pad, then
\* the head fuzz before masking, then the plaintext in stream order, and
\* nothing else.  For a message that was not changed, the hash input of the
\* decoder is at every step a prefix of the hash input of the encoder, and
\* is equal to it at the end, however the message is cut into chunks.
C33_HashInputOrder ==
  /\ (cur.role = "enc" /\ pc \in {"enc", "done"} /\ cur.tamper.kind = "none") =>
        /\ IsPrefix(PadRead(sess.offset + 6, 32) \o RandBytes([randy EXCEPT !.count = 0],
                                                              randy.count),
                    sess.hash)
        /\ IsPrefix(sess.hash,
                    PadRead(sess.offset + 6, 32)
                    \o RandBytes([randy EXCEPT !.count = 0], randy.count)
                    \o cur.plain)
        /\ pc = "done" => Len(sess.hash) = 32 + randy.count + Len(cur.plain)
  /\ (cur.role = "dec" /\ cur.tamper.kind \in {"none", "wrap"} /\ sess.hashed) =>
        /\ IsPrefix(sess.hash, HashInput(cur.msg))
        /\ pc \in {"done", "failed"} => (pc = "done" /\ sess.hash = HashInput(cur.msg))

\* the last n elements of s, all of s when it has fewer
LastOf(s, n) == Drop(s, Max(0, Len(s) - n))

\* the bytes of a chunk that come after the head, for a decrypting session S:
\* after the six header bytes and the head fuzz in the first chunk, after
\* the head fuzz still expected in a later one
PostHead(S, string) ==
  IF S.begun THEN Drop(string, S.fuzz_remaining)
  ELSE Drop(string, 2 + (2 * DefaultFuzzSourceLength) + cur.msg.head)

\* C34: the tail reserve of a decrypting session.  After every convert()
\* the tail buffer holds the most recent min(n, 32 + T) bytes that came after
\* the head; the bytes before them, and only these, are unmasked with the
\* next pad bytes and returned.  At the end of the input the last 32 + T
\* bytes of the message are in the buffer: they were not returned and took
\* no pad.
C34_TailReserve ==
  [][(/\ pc = "dec" /\ pc' = "dec"
      /\ inp # <<>> /\ inp' = Tail(inp)
      /\ cur.tamper.kind \in {"none", "wrap"}
      /\ sess.begun \/ Len(B64Decode(Head(inp))) >= 2 + (2 * DefaultFuzzSourceLength)) =>
       \E tb \in {sess.tail_buffer \o PostHead(sess, B64Decode(Head(inp)))} :
       \E T \in {sess'.tail_fuzz_length} :
          /\ sess'.tail_buffer = LastOf(tb, Min(Len(tb), DigestLength + T))
          /\ Len(sess'.tail_buffer) <= DigestLength + T
          /\ sess'.ret = XorSeq(Take(tb, Len(tb) - Len(sess'.tail_buffer)),
                                PadRead(sess'.pos - (Len(tb) - Len(sess'.tail_buffer)),
                                        Len(tb) - Len(sess'.tail_buffer)))
          /\ (sess.begun /\ sess.fuzz_remaining = 0)
               => sess'.length - sess.length = Len(tb) - Len(sess'.tail_buffer)
          /\ inp' = <<>> =>
               /\ sess'.tail_buffer = LastOf(BodyBytes(cur.msg.lines), DigestLength + T)
               /\ sess'.length = cur.msg.length - (DigestLength + T)]_vars

\* the message was given to the decoder one byte at a time after a first
\* chunk of six bytes; all of it is read, and the 32 bytes of the digest and
\* the 5 bytes of tail fuzz are in the tail buffer
C34_Witness ==
  /\ pc = "dec"
  /\ inp = <<>>
  /\ cur.tamper.kind = "wrap"
  /\ cur.tamper.at = 6
  /\ sess.tail_fuzz_length = 5
  /\ Len(sess.tail_buffer) = 37
  /\ sess.tail_buffer = LastOf(BodyBytes(cur.msg.lines), 37)
  /\ out = cur.plain

(***************************************************************************)
(* Properties of sessions at format level "original" (SpecOriginal).       *)
(***************************************************************************)
\* a run that decrypted a message of format level "original" has finished
OriginalDone == pc = "done" /\ sess.format_level = "original"

C36_MalformedReadsAsEmpty ==
  (pc # "idle" /\ disk0.form # "records") =>
    /\ pc \in {"opened", "done"}
    /\ sess.err = "none"
    /\ sess.offset = IdSourceLength
    /\ pc = "opened" => pad_records = [id \in {IdInternal} |-> <<>>]
    /\ pc = "done" =>
          disk = [form |-> "records",
                  records |-> [id \in {IdInternal} |->
                                 <<<<IdSourceLength, sess.length>>>>]]

(***************************************************************************)
(* Properties of the store taken alone (SpecStore), continued.             *)
(***************************************************************************)
\* C37: when reconsumption is not allowed, record_consumed() raises
\* ConfigurationError if and only if the new range shares a byte with a
\* recorded range.  A call that raised left its range appended to the list
\* and recorded no session; a call that returned recorded one.
C37_RaisesIffOverlap ==
  [][nsess' = nsess + 1 =>
       /\ hist' = hist =>
             \E r \in {pad_records'[IdInternal][Len(pad_records'[IdInternal])]} :
                Overlaps(pad_records[IdInternal], r[1], r[2])
       /\ (hist' # hist /\ ~hist'[Len(hist')].allow) =>
             /\ ~Overlaps(pad_records[IdInternal], hist'[Len(hist')].offset,
                          hist'[Len(hist')].length)
             /\ Covered(pad_records'[IdInternal], hist'[Len(hist')].offset,
                        hist'[Len(hist')].length)]_vars

(***************************************************************************)
(* Properties of two encryptions with one pad (SpecTwice).                 *)
(***************************************************************************)
\* C38: the re-use of pad is refused before ciphertext leaves the encoder.
\* When an encrypting session that starts inside a range recorded as used
\* ends in ConfigurationError, encode() has returned no ciphertext.
C38_NoCiphertextBeforeRefusal ==
  (/\ cur.role = "enc"
   /\ pc = "failed"
   /\ sess.err = "ConfigurationError"
   /\ StartsInRecorded) => out = <<>>

(***************************************************************************)
(* Properties of two sessions with overlapping lifetimes (SpecOverlap).    *)
(***************************************************************************)
\* both sessions were constructed before either finished, and both finished
BothFinishedOverlapping ==
  /\ Len(hist) = 2
  /\ hist[1].other = "opened"

\* C39 as stated: when two encrypting sessions on the same pad and the same
\* store path are both constructed before either finishes, both get the
\* same start offset, both finish without ConfigurationError, and the store
\* saved by the second finish no longer contains the range recorded by the
\* first.
C39_FirstRangeGone ==
  BothFinishedOverlapping =>
    /\ hist[1].offset = hist[2].offset
    /\ hist[1].err = "none" /\ hist[2].err = "none"
    /\ ~Covered(UsedIn(disk), hist[1].offset, hist[1].length)

\* C39: overlapping session lifetimes are not defended against: when two
\* encrypting sessions on the same pad and the same store path are both
\* constructed before either finishes, both get the same start offset, both
\* finish without an error, and the store saved by the second finish is what
\* the second session alone would have left: the ranges of the file both
\* found and the range of the second.  What the first recorded is
\* overwritten, so the store contains the first range only as far as the
\* second reaches: not at all past the second's end when the second is
\* the shorter.
C39_OverlappingLifetimes ==
  BothFinishedOverlapping =>
    /\ hist[1].offset = hist[2].offset
    /\ hist[1].err = "none" /\ hist[2].err = "none"
    /\ pc = [i \in Sessions |-> "done"]
    /\ disk0[1] = disk0[2]
    /\ CoverSet(UsedIn(disk)) =
         CoverSet(UsedIn(disk0[1])) \cup
           (hist[2].offset..(hist[2].offset + hist[2].length - 1))
    /\ hist[1].length > hist[2].length =>
         ~Covered(UsedIn(disk), hist[1].offset, hist[1].length)
    /\ hist[1].length <= hist[2].length =>
         Covered(UsedIn(disk), hist[1].offset, hist[1].length)

\* both sessions started at 109 after a recorded message; the first used 82
\* bytes, the second 77, and the file saved last ends at 186
C39_Witness ==
  /\ BothFinishedOverlapping
  /\ hist[1].offset = 109 /\ hist[2].offset = 109
  /\ hist[1].length = 82 /\ hist[2].length = 77
  /\ hist[2].before = [id \in {IdInternal} |-> <<<<32, 159>>>>]
  /\ disk = [id \in {IdInternal} |-> <<<<32, 154>>>>]

(***************************************************************************)
(* The fuzz-length source bytes of a message (SpecTamper).                 *)
(***************************************************************************)
\* the pad-records file a decryption of the message m leaves in an area
\* whose file was found as file
FileAfterDecrypting(file, m) ==
  Only({SaveFile(RecordConsumed(reg.records, m.offset, m.length, TRUE).records).file
    : reg \in {Register(ParsePadRecordsFile(file).records)}})

\* one of the four bytes that carry head_fuzz_len_src and tail_fuzz_len_src
\* (bytes 2..5 of the body counted from 0) was changed
FuzzSourceChanged ==
  /\ cur.tamper.kind = "byte"
  /\ cur.tamper.at \in 3..(2 + (2 * DefaultFuzzSourceLength))

\* C40: the fuzz-length source fields of the ciphertext are ignored on
\* decrypt: a message in which one of body bytes 2-5 was changed is
\* decrypted with the outcome of the message as written.  Either run ends
\* without error, with the plaintext as output, with the tail fuzz length
\* of the message (taken from the pad), with the length the encryptor
\* consumed, read to the same pad position, and with the same range
\* recorded in the same file.
C40_FuzzSourceIgnored ==
  (/\ cur.role = "dec"
   /\ pc \in {"dec", "done", "failed"}
   /\ ~scope.shorten
   /\ cur.tamper = NoTamper \/ FuzzSourceChanged) =>
    /\ pc # "failed"
    /\ sess.err = "none"
    /\ pc = "done" =>
         /\ out = cur.msg.plain
         /\ sess.offset = cur.msg.offset
         /\ sess.length = cur.msg.length
         /\ sess.pos = cur.msg.offset + cur.msg.length
         /\ sess.tail_fuzz_length = cur.msg.tail
         /\ hist[Len(hist)].offset = cur.msg.offset
         /\ hist[Len(hist)].length = cur.msg.length
         /\ disk[cur.area] = FileAfterDecrypting(disk0, cur.msg)

\* a message with head fuzz whose first tail-fuzz source byte was changed
\* has been decrypted to the end
C40_Witness ==
  /\ pc = "done"
  /\ cur.role = "dec"
  /\ FuzzSourceChanged
  /\ cur.tamper.at = 5
  /\ cur.msg.head > 0
  /\ out = <<65, 66>>
  /\ UsedIn(disk[cur.area]) # <<>>

====
